---- MODULE Spec2Model ----
(***************************************************************************)
(* Model of the CyDnA core reliability layer (src/src/ack_manager.rs,      *)
(* src/src/transmitter.rs, src/src/contracts.rs, src/src/lib.rs).          *)
(*                                                                         *)
(* u64 values are natural numbers of arbitrary size written as sequences   *)
(* of base-256 digits, least significant first, without leading zeros      *)
(* (<<>> is 0).  A value is a u64 exactly when it has at most 8 digits, so *)
(* saturation and wrap-around happen at 2^64 as in the program.            *)
(***************************************************************************)
EXTENDS Integers, Sequences, FiniteSets, TLC

VARIABLES
    pc,               \* position of send_critical_alert: idle, send, set_timeout, wait, done
    max_retries,      \* argument max_retries (u32)
    base_timeout_ms,  \* argument base_timeout_ms (u64, digits)
    payload,          \* argument payload: the SensorPayload to deliver
    attempt,          \* loop variable `attempt`
    result,           \* value returned by the call, "none" while it runs
    read_timeout,     \* the socket's read timeout (digits), None before the call sets it
    sends,            \* calls of Transmitter::send made by this call
    waits,            \* calls of wait_for_ack made by this call
    waitLog,          \* every wait_for_ack of this call in order: the kind of answer
                      \* recv_from gave and what wait_for_ack returned
    lastRecv,         \* what the last socket.recv_from of this call returned
    sendFailedAt,     \* attempt whose Transmitter::send failed, -1 if none
    timeoutFailedAt,  \* attempt whose timeout step failed, -1 if none
    toGateway,        \* payload datagrams in flight to the gateway
    toSender,         \* datagrams queued on the sender's socket
    gatewayGot,       \* payload datagrams the gateway has received
    call,             \* the operation called outside send_critical_alert, with its arguments
    ret,              \* the value it returned, NoRet before
    config,           \* the fields of the gateway's ReceiverBuilder
    wire,             \* lengths of the datagrams that the last Transmitter call made
                      \* outside send_critical_alert gave to socket.send_to
    encoders,         \* the threads that call serialize_payload: position, payload, result
    heap,             \* the byte buffers that the serializers of those calls write to
    rtx,              \* the caller-owned RetransmissionState instances
    scheduled,        \* per instance: schedule_next_retry calls that returned since new
    clock,            \* the monotonic clock that Instant::now() reads, in milliseconds
    exchanges,        \* two concurrent send_critical_alert calls: position, max_retries,
                      \* attempt, result, sends, payload datagrams in flight
    sockets,          \* the sockets those calls are given: queued datagrams, read timeout
    bound,            \* per call the socket it was given, 0 before the sockets are bound
    acked,            \* per call: the gateway has sent an ACK that matches its payload
    stolen            \* per call: an ACK for its payload was read by the other call

vars == <<pc, max_retries, base_timeout_ms, payload, attempt, result, read_timeout,
          sends, waits, waitLog, lastRecv, sendFailedAt, timeoutFailedAt,
          toGateway, toSender, gatewayGot, call, ret, config, wire, encoders, heap,
          rtx, scheduled, clock, exchanges, sockets, bound, acked, stolen>>

alertVars == <<pc, max_retries, base_timeout_ms, payload, attempt, result, read_timeout,
               sends, waits, waitLog, lastRecv, sendFailedAt, timeoutFailedAt,
               toGateway, toSender, gatewayGot>>

\* the state of the components modelled beside the Transmitter, the Receiver
\* and the contracts
pairVars == <<exchanges, sockets, bound, acked, stolen>>

extVars == <<encoders, heap, rtx, scheduled, clock, pairVars>>

fnVars == <<call, ret, config, wire, extVars>>

----------------------------------------------------------------------------
(* Natural numbers as digit sequences.                                     *)

Digit == 2^8

U64Digits == 64 \div 8

RECURSIVE Nat2Big(_)
Nat2Big(n) == IF n = 0 THEN <<>> ELSE <<n % Digit>> \o Nat2Big(n \div Digit)

RECURSIVE BigNorm(_)
BigNorm(s) ==
    IF s = <<>> THEN <<>>
    ELSE IF s[Len(s)] = 0 THEN BigNorm(SubSeq(s, 1, Len(s) - 1))
    ELSE s

BigDigit(s, i) == IF i <= Len(s) THEN s[i] ELSE 0

\* In the operators below `x \in {e}` names the value of e, so that e is
\* evaluated once however often x is used.

\* a + b*k*Digit^shift digit by digit from position i with carry c; k < Digit
RECURSIVE BigAddMul(_, _, _, _, _, _)
BigAddMul(a, b, k, shift, i, c) ==
    IF i > Len(a) /\ i > Len(b) + shift /\ c = 0 THEN <<>>
    ELSE CHOOSE r \in
           {<<t % Digit>> \o BigAddMul(a, b, k, shift, i + 1, t \div Digit) :
              t \in {BigDigit(a, i) + (IF i > shift THEN BigDigit(b, i - shift) ELSE 0) * k
                       + c}} : TRUE

BigAdd(a, b) ==
    CHOOSE r \in {BigNorm(BigAddMul(x, y, 1, 0, 1, 0)) : x \in {a}, y \in {b}} : TRUE

RECURSIVE BigMulFrom(_, _, _, _)
BigMulFrom(a, b, i, acc) ==
    IF i > Len(b) THEN acc
    ELSE CHOOSE r \in
           {BigMulFrom(a, b, i + 1, next) :
              next \in {BigNorm(BigAddMul(acc, a, b[i], i - 1, 1, 0))}} : TRUE

BigMul(a, b) ==
    CHOOSE r \in {BigMulFrom(x, y, 1, <<>>) : x \in {a}, y \in {b}} : TRUE

RECURSIVE BigLessFrom(_, _, _)
BigLessFrom(a, b, i) ==
    IF i = 0 THEN FALSE
    ELSE IF a[i] # b[i] THEN a[i] < b[i]
    ELSE BigLessFrom(a, b, i - 1)

BigLess(a, b) ==
    \E x \in {a}, y \in {b} :
        IF Len(x) # Len(y) THEN Len(x) < Len(y) ELSE BigLessFrom(x, y, Len(x))

BigLeq(a, b) == ~BigLess(b, a)

BigMin(a, b) ==
    CHOOSE r \in {IF BigLess(y, x) THEN y ELSE x : x \in {a}, y \in {b}} : TRUE

RECURSIVE BigPow(_, _)
BigPow(a, e) ==
    IF e = 0 THEN <<1>>
    ELSE CHOOSE r \in
           {IF e % 2 = 0 THEN BigMul(h, h) ELSE BigMul(BigMul(h, h), a) :
              h \in {BigPow(a, e \div 2)}} : TRUE

FitsU64(a) == Len(a) <= U64Digits

U64_MAX == [i \in 1..U64Digits |-> Digit - 1]

WrapU64(a) ==
    CHOOSE r \in {BigNorm(SubSeq(x, 1, IF Len(x) < U64Digits THEN Len(x) ELSE U64Digits)) :
                    x \in {a}} : TRUE

U32Digits == 32 \div 8

FitsU32(a) == Len(a) <= U32Digits

U32_MAX == [i \in 1..U32Digits |-> Digit - 1]

WrapU32(a) ==
    CHOOSE r \in {BigNorm(SubSeq(x, 1, IF Len(x) < U32Digits THEN Len(x) ELSE U32Digits)) :
                    x \in {a}} : TRUE

----------------------------------------------------------------------------
(* src/src/lib.rs                                                          *)

MAX_PAYLOAD_SIZE == 1024

BACKOFF_MULTIPLIER == 2

MAX_RETRANSMIT_ATTEMPTS == 3

----------------------------------------------------------------------------
(* src/src/errors.rs: the variants of CyDnAError                           *)

CyDnAError ==
    {"IoError", "SerializationError", "DeserializationError", "IntegrityCheckFailed",
     "PayloadExpired", "InvalidDeviceId", "InvalidBatteryLevel", "AckTimeout",
     "MaxRetriesExceeded", "InvalidPacketLength", "SignatureVerificationFailed",
     "InvalidGatewayId", "BufferTooSmall"}

----------------------------------------------------------------------------
(* src/src/receiver.rs: ReceiverBuilder                                    *)

ReceiverBuilder_new ==
    [buffer_size |-> MAX_PAYLOAD_SIZE, enable_crc_check |-> TRUE, enable_ttl_check |-> TRUE]

with_buffer_size(self, size) == [self EXCEPT !.buffer_size = size]

with_crc_check(self, enable) == [self EXCEPT !.enable_crc_check = enable]

with_ttl_check(self, enable) == [self EXCEPT !.enable_ttl_check = enable]

is_ttl_check_enabled(self) == self.enable_ttl_check

----------------------------------------------------------------------------
(* u64 arithmetic of the standard library, as used by ack_manager.rs.      *)

wrapping_mul(a, b) == WrapU64(BigMul(a, b))

saturating_mul(a, b) ==
    CHOOSE r \in {IF FitsU64(product) THEN product ELSE U64_MAX :
                    product \in {BigMul(a, b)}} : TRUE

saturating_add(a, b) ==
    CHOOSE r \in {IF FitsU64(sum) THEN sum ELSE U64_MAX : sum \in {BigAdd(a, b)}} : TRUE

wrapping_add(a, b) == WrapU64(BigAdd(a, b))

plain_mul_saturating(a, b) == [fits |-> TRUE, wrapped |-> saturating_mul(a, b)]

\* a * b on u64, as in `base_timeout_ms * 10`: whether the product fits, and the
\* product modulo 2^64 that a build without overflow checks continues with
plain_mul(a, b) ==
    CHOOSE r \in {[fits |-> FitsU64(product), wrapped |-> WrapU64(product)] :
                    product \in {BigMul(a, b)}} : TRUE

RECURSIVE saturating_pow(_, _)
saturating_pow(a, e) ==
    IF e = 0 THEN <<1>>
    ELSE CHOOSE r \in
           {IF e % 2 = 0 THEN saturating_mul(h, h)
            ELSE saturating_mul(saturating_mul(h, h), a) :
              h \in {saturating_pow(a, e \div 2)}} : TRUE

----------------------------------------------------------------------------
(* AckManager::calculate_backoff_ms                                        *)

calculate_backoff_ms_wrap(attempt_, base_ms, max_delay_ms) ==
    BigMin(wrapping_mul(base_ms, saturating_pow(Nat2Big(BACKOFF_MULTIPLIER), attempt_)),
           max_delay_ms)

\* the exponential delay without the ceiling
calculate_backoff_ms_uncapped(attempt_, base_ms, max_delay_ms) ==
    saturating_mul(base_ms, saturating_pow(Nat2Big(BACKOFF_MULTIPLIER), attempt_))

calculate_backoff_ms(attempt_, base_ms, max_delay_ms) ==
    LET multiplier == Nat2Big(BACKOFF_MULTIPLIER)
        backoff    == saturating_mul(base_ms, saturating_pow(multiplier, attempt_))
    IN  BigMin(backoff, max_delay_ms)

----------------------------------------------------------------------------
(* Bounds of the model and the inputs drawn by the environment.            *)

MaxRetries == 3

MaxInFlight == 1

MaxEncoders == 2

MaxClock == 2

MaxSchedules == 4

MaxExchangeRetries == 5

MaxQueued == 2

\* 2^63 + 1, whose product with 10 is 10 modulo 2^64
WrappingBase == BigAdd(BigPow(<<2>>, 63), <<1>>)

BaseTimeouts == {Nat2Big(0), Nat2Big(100), BigPow(<<2>>, 63), WrappingBase}

\* max_retries and base_timeout_ms of the calls of send_critical_alert: every
\* number of attempts with the bases 0, 100 and 2^63, one attempt with 2^63 + 1
CallArguments ==
    {a \in (0..MaxRetries) \X BaseTimeouts : a[2] = WrappingBase => a[1] = 1}

Payloads ==
    {[device_unique_id |-> 42, timestamp_ms_utc |-> Nat2Big(1000),
      sensor_model_version |-> 1, battery_level_percent |-> 50, time_to_live_ms |-> 100,
      raw_data_hash_crc |-> 305419896, anomaly_ai_vector |-> [i \in 1..32 |-> 0]]}

\* a device id and a timestamp that are not those of payload p
OtherDevice(p) == p.device_unique_id + 1

OtherTimestamp(p) == BigAdd(p.timestamp_ms_utc, <<1>>)

----------------------------------------------------------------------------
(* src/src/contracts.rs: AckPacket.  A datagram on the sender's socket is   *)
(* described by its length, by whether rkyv's check_archived_root accepts  *)
(* its bytes as an AckPacket, and by the fields it then decodes to.        *)

ACK_PACKET_SIZE == 16

AckPacket_ack(device_unique_id, original_timestamp_ms) ==
    [device_unique_id |-> device_unique_id,
     original_timestamp_ms |-> original_timestamp_ms,
     ack_type |-> 0]

AckPacket_nack(device_unique_id, original_timestamp_ms) ==
    [device_unique_id |-> device_unique_id,
     original_timestamp_ms |-> original_timestamp_ms,
     ack_type |-> 1]

is_ack_not_two(packet) == packet.ack_type # 2

is_ack(packet) == packet.ack_type = 0

serialize_ack(ack) ==
    [len |-> ACK_PACKET_SIZE, wellformed |-> TRUE, packet |-> ack]

\* a datagram as the socket delivers it: the bytes and the address they came from
Datagram(bytes, from) ==
    [len |-> bytes.len, wellformed |-> bytes.wellformed, packet |-> bytes.packet,
     from |-> from]

check_archived_root(dgram) == dgram.wellformed

NoPacket == [device_unique_id |-> 0, original_timestamp_ms |-> <<>>, ack_type |-> 0]

NoBytes == [len |-> 0, wellformed |-> FALSE, packet |-> NoPacket]

NoDatagram == Datagram(NoBytes, "nobody")

\* byte strings that a peer other than the gateway may send to the sender's socket
StrayBytes(p) ==
    {[len |-> 8, wellformed |-> FALSE, packet |-> NoPacket],
     [len |-> 17, wellformed |-> FALSE,
      packet |-> AckPacket_ack(p.device_unique_id, p.timestamp_ms_utc)],
     serialize_ack(AckPacket_ack(OtherDevice(p), p.timestamp_ms_utc)),
     serialize_ack(AckPacket_ack(p.device_unique_id, OtherTimestamp(p))),
     serialize_ack([AckPacket_ack(p.device_unique_id, p.timestamp_ms_utc)
                       EXCEPT !.ack_type = 2]),
     serialize_ack(AckPacket_ack(p.device_unique_id, p.timestamp_ms_utc))}

----------------------------------------------------------------------------
(* src/src/transmitter.rs                                                  *)

ANOMALY_VECTOR_SIZE == 32

RoundUp(n, a) == ((n + a - 1) \div a) * a

\* the k bytes of the unsigned integer n, most significant first
to_be_bytes(n, k) == [i \in 1..k |-> (n \div Digit^(k - i)) % Digit]

\* the k bytes of the unsigned integer n as rkyv archives it on the targets of
\* this crate: least significant first
to_le_bytes(n, k) == [i \in 1..k |-> (n \div Digit^(i - 1)) % Digit]

\* the unsigned integer that an archived view reads from the bytes b
RECURSIVE from_le_bytes(_)
from_le_bytes(b) == IF b = <<>> THEN 0 ELSE b[1] + Digit * from_le_bytes(Tail(b))

\* The fields of ArchivedSensorPayload in the order of their offsets.  The
\* struct has the default representation, so the compiler places the fields by
\* decreasing alignment; the encoder and the decoder of one build share the
\* layout.
ArchivedFields ==
    <<"timestamp_ms_utc", "device_unique_id", "raw_data_hash_crc", "anomaly_ai_vector",
      "sensor_model_version", "time_to_live_ms", "battery_level_percent">>

\* size in bytes of a field's type
field_size(f) ==
    CASE f = "timestamp_ms_utc" -> 8
      [] f = "device_unique_id" -> 4
      [] f = "raw_data_hash_crc" -> 4
      [] f = "anomaly_ai_vector" -> 4 * ANOMALY_VECTOR_SIZE
      [] f = "sensor_model_version" -> 2
      [] f = "time_to_live_ms" -> 2
      [] f = "battery_level_percent" -> 1

\* offset of the k-th field of ArchivedFields
RECURSIVE field_offset(_)
field_offset(k) ==
    IF k = 1 THEN 0 ELSE field_offset(k - 1) + field_size(ArchivedFields[k - 1])

\* size of the archived value: the fields, padded to the alignment of u64
size_of_ArchivedSensorPayload ==
    RoundUp(field_offset(Len(ArchivedFields)) + field_size(ArchivedFields[Len(ArchivedFields)]), 8)

\* the bytes of one archived field of p: integers and the bit patterns of the
\* f32 elements as they are in memory
field_bytes(p, f) ==
    CASE f = "timestamp_ms_utc" -> [i \in 1..8 |-> BigDigit(p.timestamp_ms_utc, i)]
      [] f = "anomaly_ai_vector" ->
            [j \in 1..(4 * Len(p.anomaly_ai_vector)) |->
                to_le_bytes(p.anomaly_ai_vector[((j - 1) \div 4) + 1], 4)[((j - 1) % 4) + 1]]
      [] OTHER -> to_le_bytes(p[f], field_size(f))

\* ptr.write_bytes(0, 1): the place of the archived value, zeroed before the
\* fields are resolved into it, so that the padding is zero
zeroed(n) == [i \in 1..n |-> 0]

\* buf with bytes written at offset off
write_at(buf, off, bytes) ==
    [i \in 1..Len(buf) |->
        IF i > off /\ i <= off + Len(bytes) THEN bytes[i - off] ELSE buf[i]]

\* resolving the k-th field of p into the archive buf
resolve_field(buf, p, k) ==
    write_at(buf, field_offset(k), field_bytes(p, ArchivedFields[k]))

\* resolving the fields k, k + 1, ... of p into buf
RECURSIVE resolve_from(_, _, _)
resolve_from(buf, p, k) ==
    IF k > Len(ArchivedFields) THEN buf
    ELSE resolve_from(resolve_field(buf, p, k), p, k + 1)

\* rkyv::to_bytes for a SensorPayload when the serializer does not fail
to_bytes(p) == resolve_from(zeroed(size_of_ArchivedSensorPayload), p, 1)

\* an encoding with every vector element widened to 64 bytes
serialize_payload_large(p, enc) ==
    IF enc = "ok"
    THEN [ok |-> TRUE,
          len |-> RoundUp(4 + 8 + 2 + 1 + 2 + 4 + 64 * ANOMALY_VECTOR_SIZE, 8),
          bytes |-> to_bytes(p) \o zeroed(60 * ANOMALY_VECTOR_SIZE)]
    ELSE [ok |-> FALSE, len |-> 0, bytes |-> <<>>]

\* Transmitter::serialize_payload: the bytes of the archive copied to a Vec,
\* or SerializationError when rkyv's serializer reports a fault.  enc is what
\* the serializer answers: "ok" or "err".
serialize_payload(p, enc) ==
    IF enc = "ok"
    THEN [ok |-> TRUE, len |-> Len(to_bytes(p)), bytes |-> to_bytes(p)]
    ELSE [ok |-> FALSE, len |-> 0, bytes |-> <<>>]

\* rkyv::check_archived_root::<SensorPayload> on bytes held in a buffer that is
\* aligned for the archive, as the Vec that serialize_payload returns is: the
\* root is the last size_of bytes, it has to lie inside the buffer at an aligned
\* position, and every bit pattern is a valid integer or f32.  view is the
\* archived value as its fields read.
check_archived_root_SensorPayload(bytes) ==
    LET root == Len(bytes) - size_of_ArchivedSensorPayload
        at(k) == SubSeq(bytes, root + field_offset(k) + 1,
                        root + field_offset(k) + field_size(ArchivedFields[k]))
    IN  IF root < 0 \/ root % 8 # 0
        THEN [ok |-> FALSE, view |-> <<>>]
        ELSE [ok |-> TRUE,
              view |-> [timestamp_ms_utc |-> BigNorm(at(1)),
                        device_unique_id |-> from_le_bytes(at(2)),
                        raw_data_hash_crc |-> from_le_bytes(at(3)),
                        anomaly_ai_vector |->
                            [i \in 1..ANOMALY_VECTOR_SIZE |->
                                from_le_bytes(SubSeq(at(4), 4 * i - 3, 4 * i))],
                        sensor_model_version |-> from_le_bytes(at(5)),
                        time_to_live_ms |-> from_le_bytes(at(6)),
                        battery_level_percent |-> from_le_bytes(at(7))]]

\* rkyv::to_bytes for an AckPacket: the archive has the timestamp at offset 0,
\* the device id at 8, ack_type at 12 and the three padding bytes, all zero,
\* at 13
to_bytes_AckPacket(ack) ==
    [i \in 1..8 |-> BigDigit(ack.original_timestamp_ms, i)]
        \o to_le_bytes(ack.device_unique_id, 4)
        \o <<ack.ack_type>>
        \o zeroed(3)

\* rkyv::check_archived_root::<AckPacket> on the received bytes in the aligned
\* receive buffer: the root is the last 16 bytes and has to start at an aligned
\* position; every bit pattern is a valid field
check_archived_root_AckPacket(bytes) ==
    LET root == Len(bytes) - ACK_PACKET_SIZE IN
    IF root < 0 \/ root % 8 # 0
    THEN [ok |-> FALSE, view |-> NoPacket]
    ELSE [ok |-> TRUE,
          view |-> [device_unique_id |-> from_le_bytes(SubSeq(bytes, root + 9, root + 12)),
                    original_timestamp_ms |-> BigNorm(SubSeq(bytes, root + 1, root + 8)),
                    ack_type |-> bytes[root + 13]]]

\* the datagram that recv_from delivers when bytes arrive from the address from
received(bytes, from) ==
    LET checked == check_archived_root_AckPacket(bytes) IN
    Datagram([len |-> Len(bytes), wellformed |-> checked.ok, packet |-> checked.view], from)

\* AckManager::send_ack: sent is what socket.send_to was given, send_to what
\* it answers
AckManager_send_ack(device_unique_id, original_timestamp_ms, send_to) ==
    LET ack == AckPacket_ack(device_unique_id, original_timestamp_ms)
        bytes == to_bytes_AckPacket(ack)
    IN  IF send_to = "ok" THEN [res |-> "Ok", sent |-> <<bytes>>]
        ELSE [res |-> "IoError", sent |-> <<>>]

\* AckManager::send_nack
AckManager_send_nack(device_unique_id, original_timestamp_ms, send_to) ==
    LET nack == AckPacket_nack(device_unique_id, original_timestamp_ms)
        bytes == to_bytes_AckPacket(nack)
    IN  IF send_to = "ok" THEN [res |-> "Ok", sent |-> <<bytes>>]
        ELSE [res |-> "IoError", sent |-> <<>>]

\* Transmitter::serialize_batch: payloads.iter().map(serialize_payload).collect().
\* encs[i] is what the serializer answers for element i.  Collecting into a
\* Result stops at the first Err and returns it; calls counts the elements
\* that were encoded or tried.
RECURSIVE serialize_batch_from(_, _, _, _)
serialize_batch_from(payloads, encs, i, acc) ==
    IF i > Len(payloads) THEN [res |-> "Ok", batch |-> acc, calls |-> i - 1, failed |-> 0]
    ELSE LET r == serialize_payload(payloads[i], encs[i]) IN
         IF ~r.ok THEN [res |-> "SerializationError", batch |-> <<>>, calls |-> i,
                        failed |-> i]
         ELSE serialize_batch_from(payloads, encs, i + 1, Append(acc, r.bytes))

\* a collect that skips the elements that failed
RECURSIVE serialize_batch_skip_from(_, _, _, _)
serialize_batch_skip_from(payloads, encs, i, acc) ==
    IF i > Len(payloads) THEN [res |-> "Ok", batch |-> acc, calls |-> i - 1, failed |-> 0]
    ELSE LET r == serialize_payload(payloads[i], encs[i]) IN
         IF ~r.ok THEN serialize_batch_skip_from(payloads, encs, i + 1, acc)
         ELSE serialize_batch_skip_from(payloads, encs, i + 1, Append(acc, r.bytes))

serialize_batch_skip(payloads, encs) == serialize_batch_skip_from(payloads, encs, 1, <<>>)

serialize_batch(payloads, encs) == serialize_batch_from(payloads, encs, 1, <<>>)

\* The result of a Transmitter call: res is "Ok" or the name of the error,
\* written the byte count of Ok, required and available the fields of
\* BufferTooSmall, datagrams the lengths handed to socket.send_to in order.
\* send_to is what the socket answers: "ok" or "err".
NoTxResult ==
    [res |-> "none", written |-> 0, required |-> 0, available |-> 0, datagrams |-> <<>>]

send_raw_inclusive(bytes_len, send_to) ==
    IF bytes_len >= MAX_PAYLOAD_SIZE
    THEN [NoTxResult EXCEPT !.res = "BufferTooSmall", !.required = bytes_len,
                            !.available = MAX_PAYLOAD_SIZE]
    ELSE IF send_to = "ok"
    THEN [NoTxResult EXCEPT !.res = "Ok", !.written = bytes_len,
                            !.datagrams = <<bytes_len>>]
    ELSE [NoTxResult EXCEPT !.res = "IoError", !.datagrams = <<bytes_len>>]

\* Transmitter::send_raw
send_raw(bytes_len, send_to) ==
    IF bytes_len > MAX_PAYLOAD_SIZE
    THEN [NoTxResult EXCEPT !.res = "BufferTooSmall", !.required = bytes_len,
                            !.available = MAX_PAYLOAD_SIZE]
    ELSE IF send_to = "ok"
    THEN [NoTxResult EXCEPT !.res = "Ok", !.written = bytes_len,
                            !.datagrams = <<bytes_len>>]
    ELSE [NoTxResult EXCEPT !.res = "IoError", !.datagrams = <<bytes_len>>]

\* Transmitter::send with everything it returns and does
send(p, enc, send_to) ==
    LET bytes == serialize_payload(p, enc) IN
    IF ~bytes.ok THEN [NoTxResult EXCEPT !.res = "SerializationError"]
    ELSE IF bytes.len > MAX_PAYLOAD_SIZE
    THEN [NoTxResult EXCEPT !.res = "BufferTooSmall", !.required = bytes.len,
                            !.available = MAX_PAYLOAD_SIZE]
    ELSE IF send_to = "ok"
    THEN [NoTxResult EXCEPT !.res = "Ok", !.written = bytes.len,
                            !.datagrams = <<bytes.len>>]
    ELSE [NoTxResult EXCEPT !.res = "IoError", !.datagrams = <<bytes.len>>]

\* Transmitter::send as send_critical_alert sees it: Ok or the error
Transmitter_send(p, enc, send_to) == send(p, enc, send_to).res

----------------------------------------------------------------------------
(* src/src/contracts.rs: SensorPayload and DLTTransactionRecord.  A        *)
(* Result is a record: res is "Ok" or the name of the error, value the Ok  *)
(* value and arg the number the error carries.  An f32 is represented by   *)
(* its bit pattern, read as an unsigned integer.                           *)

NoSensorPayload ==
    [device_unique_id |-> 0, timestamp_ms_utc |-> <<>>, sensor_model_version |-> 0,
     battery_level_percent |-> 0, time_to_live_ms |-> 0, raw_data_hash_crc |-> 0,
     anomaly_ai_vector |-> <<>>]

SensorPayload_new_battery_first(device_unique_id, timestamp_ms_utc, sensor_model_version, battery_level_percent, time_to_live_ms, raw_data_hash_crc, anomaly_ai_vector) ==
    IF battery_level_percent > 100
    THEN [res |-> "InvalidBatteryLevel", value |-> NoSensorPayload,
          arg |-> battery_level_percent]
    ELSE IF device_unique_id = 0
    THEN [res |-> "InvalidDeviceId", value |-> NoSensorPayload, arg |-> device_unique_id]
    ELSE [res |-> "Ok", arg |-> 0,
          value |-> [device_unique_id |-> device_unique_id,
                     timestamp_ms_utc |-> timestamp_ms_utc,
                     sensor_model_version |-> sensor_model_version,
                     battery_level_percent |-> battery_level_percent,
                     time_to_live_ms |-> time_to_live_ms,
                     raw_data_hash_crc |-> raw_data_hash_crc,
                     anomaly_ai_vector |-> anomaly_ai_vector]]

SensorPayload_new(device_unique_id, timestamp_ms_utc, sensor_model_version, battery_level_percent, time_to_live_ms, raw_data_hash_crc, anomaly_ai_vector) ==
    IF device_unique_id = 0
    THEN [res |-> "InvalidDeviceId", value |-> NoSensorPayload, arg |-> device_unique_id]
    ELSE IF battery_level_percent > 100
    THEN [res |-> "InvalidBatteryLevel", value |-> NoSensorPayload,
          arg |-> battery_level_percent]
    ELSE [res |-> "Ok", arg |-> 0,
          value |-> [device_unique_id |-> device_unique_id,
                     timestamp_ms_utc |-> timestamp_ms_utc,
                     sensor_model_version |-> sensor_model_version,
                     battery_level_percent |-> battery_level_percent,
                     time_to_live_ms |-> time_to_live_ms,
                     raw_data_hash_crc |-> raw_data_hash_crc,
                     anomaly_ai_vector |-> anomaly_ai_vector]]

\* self.timestamp_ms_utc.saturating_add(self.time_to_live_ms as u64)
expiration_time_ms(self) ==
    saturating_add(self.timestamp_ms_utc, Nat2Big(self.time_to_live_ms))

is_expired_wrap(self, current_time_ms) ==
    BigLess(wrapping_add(self.timestamp_ms_utc, Nat2Big(self.time_to_live_ms)),
            current_time_ms)

is_expired(self, current_time_ms) ==
    BigLess(saturating_add(self.timestamp_ms_utc, Nat2Big(self.time_to_live_ms)),
            current_time_ms)

NoDLTTransactionRecord ==
    [gateway_unique_id |-> 0, final_anomaly_score |-> 0, is_critical_alert |-> FALSE,
     consensus_mode_used |-> 0, source_payload_hash |-> <<>>, gateway_signature |-> <<>>]

DLTTransactionRecord_new_any_mode(gateway_unique_id, final_anomaly_score, is_critical_alert, consensus_mode_used, source_payload_hash, gateway_signature) ==
    IF gateway_unique_id = 0
    THEN [res |-> "InvalidGatewayId", value |-> NoDLTTransactionRecord,
          arg |-> gateway_unique_id]
    ELSE [res |-> "Ok", arg |-> 0,
          value |-> [gateway_unique_id |-> gateway_unique_id,
                     final_anomaly_score |-> final_anomaly_score,
                     is_critical_alert |-> is_critical_alert,
                     consensus_mode_used |-> consensus_mode_used,
                     source_payload_hash |-> source_payload_hash,
                     gateway_signature |-> gateway_signature]]

DLTTransactionRecord_new(gateway_unique_id, final_anomaly_score, is_critical_alert, consensus_mode_used, source_payload_hash, gateway_signature) ==
    IF gateway_unique_id = 0
    THEN [res |-> "InvalidGatewayId", value |-> NoDLTTransactionRecord,
          arg |-> gateway_unique_id]
    ELSE IF consensus_mode_used > 1
    THEN [res |-> "SerializationError", value |-> NoDLTTransactionRecord,
          arg |-> consensus_mode_used]
    ELSE [res |-> "Ok", arg |-> 0,
          value |-> [gateway_unique_id |-> gateway_unique_id,
                     final_anomaly_score |-> final_anomaly_score,
                     is_critical_alert |-> is_critical_alert,
                     consensus_mode_used |-> consensus_mode_used,
                     source_payload_hash |-> source_payload_hash,
                     gateway_signature |-> gateway_signature]]

----------------------------------------------------------------------------
(* src/src/receiver.rs: Receiver.  A datagram on the gateway's socket is    *)
(* described by its length, by whether check_archived_root accepts its     *)
(* bytes as a SensorPayload, and by the fields the archived view then      *)
(* shows.  recv is what socket.recv_from returned.  The result of an       *)
(* operation also records whether the structure check ran (checked) and    *)
(* which fields of the view were read (reads).                             *)

\* std::mem::size_of::<SensorPayload>(): the fields, padded to the alignment of u64
size_of_SensorPayload == RoundUp(4 + 8 + 2 + 1 + 2 + 4 + 4 * ANOMALY_VECTOR_SIZE, 8)

PayloadBytes(len, wellformed, view) == [len |-> len, wellformed |-> wellformed, view |-> view]

PayloadDatagram(bytes, from) ==
    [len |-> bytes.len, wellformed |-> bytes.wellformed, view |-> bytes.view, from |-> from]

NoPayloadDatagram == PayloadDatagram(PayloadBytes(0, FALSE, NoSensorPayload), "nobody")

RxData(d) == [kind |-> "data", dgram |-> d]

RxErr(k) == [kind |-> k, dgram |-> NoPayloadDatagram]

NoRxResult ==
    [res |-> "none", view |-> NoSensorPayload, bytes_received |-> 0,
     sender_addr |-> "nobody", expected |-> 0, received |-> 0,
     timestamp_ms |-> <<>>, ttl_ms |-> 0, arg |-> 0, checked |-> FALSE, reads |-> {}]

Receiver_receive_check_first(recv) ==
    IF recv.kind # "data" THEN [NoRxResult EXCEPT !.res = "IoError"]
    ELSE IF ~check_archived_root(recv.dgram)
    THEN [NoRxResult EXCEPT !.res = "DeserializationError", !.checked = TRUE]
    ELSE IF recv.dgram.len < size_of_SensorPayload
    THEN [NoRxResult EXCEPT !.res = "InvalidPacketLength", !.checked = TRUE,
                            !.expected = size_of_SensorPayload,
                            !.received = recv.dgram.len]
    ELSE [NoRxResult EXCEPT !.res = "Ok", !.checked = TRUE, !.view = recv.dgram.view,
                            !.bytes_received = recv.dgram.len,
                            !.sender_addr = recv.dgram.from]

Receiver_receive(recv) ==
    IF recv.kind # "data" THEN [NoRxResult EXCEPT !.res = "IoError"]
    ELSE IF recv.dgram.len < size_of_SensorPayload
    THEN [NoRxResult EXCEPT !.res = "InvalidPacketLength",
                            !.expected = size_of_SensorPayload,
                            !.received = recv.dgram.len]
    ELSE IF ~check_archived_root(recv.dgram)
    THEN [NoRxResult EXCEPT !.res = "DeserializationError", !.checked = TRUE]
    ELSE [NoRxResult EXCEPT !.res = "Ok", !.checked = TRUE, !.view = recv.dgram.view,
                            !.bytes_received = recv.dgram.len,
                            !.sender_addr = recv.dgram.from]

receive_with_ttl_check(recv, current_time_ms) ==
    LET r == Receiver_receive(recv) IN
    IF r.res # "Ok" THEN r
    ELSE LET timestamp_ms == r.view.timestamp_ms_utc
             ttl_ms       == r.view.time_to_live_ms
             read         == [r EXCEPT !.reads = {"timestamp_ms_utc", "time_to_live_ms"}]
         IN  IF BigLess(saturating_add(timestamp_ms, Nat2Big(ttl_ms)), current_time_ms)
             THEN [read EXCEPT !.res = "PayloadExpired", !.view = NoSensorPayload,
                               !.bytes_received = 0, !.sender_addr = "nobody",
                               !.timestamp_ms = timestamp_ms, !.ttl_ms = ttl_ms]
             ELSE read

\* the checks of receive_validated that follow receive_with_ttl_check
field_checks(r) ==
    LET read == [r EXCEPT !.reads = r.reads \cup {"raw_data_hash_crc", "device_unique_id"}]
        failed == [read EXCEPT !.view = NoSensorPayload, !.bytes_received = 0,
                               !.sender_addr = "nobody"]
    IN  IF r.view.device_unique_id = 0
        THEN [failed EXCEPT !.res = "InvalidDeviceId", !.arg = 0]
        ELSE IF r.view.battery_level_percent > 100
        THEN [failed EXCEPT !.res = "InvalidBatteryLevel",
                            !.arg = r.view.battery_level_percent,
                            !.reads = read.reads \cup {"battery_level_percent"}]
        ELSE [read EXCEPT !.reads = read.reads \cup {"battery_level_percent"}]

receive_validated_fields_first(recv, current_time_ms) ==
    LET r == Receiver_receive(recv) IN
    IF r.res # "Ok" THEN r
    ELSE LET f == field_checks(r) IN
         IF f.res # "Ok" THEN f
         ELSE receive_with_ttl_check(recv, current_time_ms)

receive_validated(recv, current_time_ms) ==
    LET r == receive_with_ttl_check(recv, current_time_ms) IN
    IF r.res # "Ok" THEN r
    ELSE field_checks(r)

----------------------------------------------------------------------------
(* AckManager::wait_for_ack; recv is what socket.recv_from returned.       *)

RecvData(d) == [kind |-> "data", dgram |-> d]

RecvErr(k) == [kind |-> k, dgram |-> NoDatagram]

wait_for_ack_noack(recv, device_unique_id, original_timestamp_ms) ==
    IF recv.kind = "data" THEN
        IF recv.dgram.len < 16 THEN "false"
        ELSE IF ~check_archived_root(recv.dgram) THEN "DeserializationError"
        ELSE IF /\ recv.dgram.packet.device_unique_id = device_unique_id
                /\ recv.dgram.packet.original_timestamp_ms = original_timestamp_ms
             THEN "true"
             ELSE "false"
    ELSE IF recv.kind \in {"WouldBlock", "TimedOut"} THEN "false"
    ELSE "IoError"

wait_for_ack_lenient(recv, device_unique_id, original_timestamp_ms) ==
    IF recv.kind = "data" THEN
        IF recv.dgram.len < 16 THEN "false"
        ELSE IF ~check_archived_root(recv.dgram) THEN "false"
        ELSE IF /\ recv.dgram.packet.device_unique_id = device_unique_id
                /\ recv.dgram.packet.original_timestamp_ms = original_timestamp_ms
                /\ is_ack(recv.dgram.packet)
             THEN "true"
             ELSE "false"
    ELSE IF recv.kind \in {"WouldBlock", "TimedOut"} THEN "false"
    ELSE "IoError"

wait_for_ack_would_block_only(recv, device_unique_id, original_timestamp_ms) ==
    IF recv.kind = "data" THEN
        IF recv.dgram.len < 16 THEN "false"
        ELSE IF ~check_archived_root(recv.dgram) THEN "DeserializationError"
        ELSE IF /\ recv.dgram.packet.device_unique_id = device_unique_id
                /\ recv.dgram.packet.original_timestamp_ms = original_timestamp_ms
                /\ is_ack(recv.dgram.packet)
             THEN "true"
             ELSE "false"
    ELSE IF recv.kind = "WouldBlock" THEN "false"
    ELSE "IoError"

wait_for_ack_gateway_only(recv, device_unique_id, original_timestamp_ms) ==
    IF recv.kind = "data" THEN
        IF recv.dgram.len < 16 THEN "false"
        ELSE IF ~check_archived_root(recv.dgram) THEN "DeserializationError"
        ELSE IF /\ recv.dgram.packet.device_unique_id = device_unique_id
                /\ recv.dgram.packet.original_timestamp_ms = original_timestamp_ms
                /\ is_ack(recv.dgram.packet)
                /\ recv.dgram.from = "gateway"
             THEN "true"
             ELSE "false"
    ELSE IF recv.kind \in {"WouldBlock", "TimedOut"} THEN "false"
    ELSE "IoError"

wait_for_ack(recv, device_unique_id, original_timestamp_ms) ==
    IF recv.kind = "data" THEN
        IF recv.dgram.len < 16 THEN "false"
        ELSE IF ~check_archived_root(recv.dgram) THEN "DeserializationError"
        ELSE IF /\ recv.dgram.packet.device_unique_id = device_unique_id
                /\ recv.dgram.packet.original_timestamp_ms = original_timestamp_ms
                /\ is_ack(recv.dgram.packet)
             THEN "true"
             ELSE "false"
    ELSE IF recv.kind \in {"WouldBlock", "TimedOut"} THEN "false"
    ELSE "IoError"

----------------------------------------------------------------------------------------------------------------------------------------
(* src/src/ack_manager.rs: RetransmissionState.  An Instant is the reading  *)
(* of the monotonic clock in milliseconds; attempt is a u32, kept as a     *)
(* digit sequence.  A call returns res "Ok" or "Panic" with the state it   *)
(* leaves.                                                                 *)

\* the value of a u64 of at most three digits
RECURSIVE Big2Nat(_)
Big2Nat(s) == IF s = <<>> THEN 0 ELSE s[1] + Digit * Big2Nat(Tail(s))

\* an Instant later than every clock reading of the model
FarFuture == 2^24

\* Instant + Duration::from_millis(ms)
instant_plus(instant, ms) ==
    IF Len(ms) < 3 THEN instant + Big2Nat(ms) ELSE FarFuture

RetransmissionState_new(device_id, payload_timestamp_ms, now) ==
    [device_id |-> device_id, payload_timestamp_ms |-> payload_timestamp_ms,
     attempt |-> <<>>, last_sent |-> now, next_retry |-> now]

is_ready_for_retry_strict(self, now) == now > self.next_retry

\* Instant::now() >= self.next_retry, now being what Instant::now() returns
is_ready_for_retry(self, now) == now >= self.next_retry

\* the base timeouts that callers of schedule_next_retry pass
ScheduleBases == {Nat2Big(0), Nat2Big(1), BigPow(<<2>>, 63)}

\* 2^32 - 2, the attempt of a state that is two calls from the end of the u32
ManySchedules == [i \in 1..U32Digits |-> IF i = 1 THEN Digit - 2 ELSE Digit - 1]

\* the attempts of the states that the model's callers schedule
RetryAttempts == {Nat2Big(k) : k \in 0..MaxSchedules} \cup {ManySchedules, U32_MAX}

\* self.attempt as the exponent of saturating_pow: a saturating power is the
\* same for every exponent from 64 on, which stands for all larger ones
pow_exponent(attempt_) == IF Len(attempt_) <= 1 THEN Big2Nat(attempt_) ELSE 64

\* let backoff_ms = calculate_backoff_ms(self.attempt, base_timeout_ms,
\* base_timeout_ms * 10).  The ceiling is a plain u64 product: when it
\* overflows, a build with overflow checks panics, another build wraps.
retry_backoff_ms(attempt_, base_ms, overflow_checks) ==
    CHOOSE r \in
       {IF ~product.fits /\ overflow_checks
        THEN [res |-> "Panic", ms |-> <<>>]
        ELSE [res |-> "Ok",
              ms |-> calculate_backoff_ms(pow_exponent(attempt_), base_ms,
                                          product.wrapped)] :
           product \in {plain_mul(base_ms, Nat2Big(10))}} : TRUE

\* retry_backoff_ms on the arguments of the model's callers, evaluated once
RetryBackoffs ==
    {[attempt |-> a, base_ms |-> b, overflow_checks |-> c,
      backoff |-> retry_backoff_ms(a, b, c)] :
        a \in RetryAttempts, b \in ScheduleBases, c \in BOOLEAN}

\* the backoff as retry_backoff_ms computes it
backoff_of(attempt_, base_ms, overflow_checks) ==
    IF attempt_ \in RetryAttempts /\ base_ms \in ScheduleBases
    THEN (CHOOSE e \in RetryBackoffs :
             /\ e.attempt = attempt_
             /\ e.base_ms = base_ms
             /\ e.overflow_checks = overflow_checks).backoff
    ELSE retry_backoff_ms(attempt_, base_ms, overflow_checks)

\* self.attempt += 1 and self.last_sent = Instant::now() on a state whose
\* next_retry is set: the plain u32 sum panics in a build with overflow
\* checks when it overflows, and wraps in another build
increment_attempt(self, now2, overflow_checks) ==
    LET sum == BigAdd(self.attempt, <<1>>) IN
    IF ~FitsU32(sum) /\ overflow_checks
    THEN [res |-> "Panic", state |-> self]
    ELSE [res |-> "Ok",
          state |-> [self EXCEPT !.attempt = WrapU32(sum), !.last_sent = now2]]

\* a backoff computed from the attempt number after its increment
schedule_next_retry_after_increment(self, base_ms, now1, now2, overflow_checks) ==
    LET backoff == backoff_of(WrapU32(BigAdd(self.attempt, <<1>>)), base_ms,
                              overflow_checks) IN
    IF backoff.res = "Panic"
    THEN [res |-> "Panic", state |-> self]
    ELSE increment_attempt([self EXCEPT !.next_retry = instant_plus(now1, backoff.ms)],
                           now2, overflow_checks)

\* the same delay, base_timeout_ms, for every retry
schedule_next_retry_constant(self, base_ms, now1, now2, overflow_checks) ==
    LET backoff == backoff_of(self.attempt, base_ms, overflow_checks) IN
    IF backoff.res = "Panic"
    THEN [res |-> "Panic", state |-> self]
    ELSE increment_attempt([self EXCEPT !.next_retry = instant_plus(now1, base_ms)],
                           now2, overflow_checks)

\* schedule_next_retry: now1 and now2 are the two readings of Instant::now(),
\* the first for next_retry and the second for last_sent.  A panic of the
\* ceiling's product happens before anything is assigned, a panic of the
\* increment after next_retry is.
schedule_next_retry(self, base_ms, now1, now2, overflow_checks) ==
    LET backoff == backoff_of(self.attempt, base_ms, overflow_checks) IN
    IF backoff.res = "Panic"
    THEN [res |-> "Panic", state |-> self]
    ELSE increment_attempt([self EXCEPT !.next_retry = instant_plus(now1, backoff.ms)],
                           now2, overflow_checks)

is_exhausted_strict(self) == BigLess(Nat2Big(MAX_RETRANSMIT_ATTEMPTS), self.attempt)

\* self.attempt >= crate::MAX_RETRANSMIT_ATTEMPTS
is_exhausted(self) == BigLeq(Nat2Big(MAX_RETRANSMIT_ATTEMPTS), self.attempt)

----------------------------------------------------------------------------
(* AckManager::send_critical_alert, one action per step of the loop, and   *)
(* the datagram channel between the sender and the gateway.                *)

NoTimeout == [some |-> FALSE, ms |-> <<>>]

NoCall == [op |-> "none", attempt |-> 0, base_ms |-> <<>>, max_delay_ms |-> <<>>]

NoRet == [done |-> FALSE, val |-> <<>>]

\* `for attempt in 0..max_retries`: the body runs for attempt a
in_range_inclusive(a, n) == a <= n

in_range(a, n) == a < n

\* `attempt == max_retries - 1`
is_final_attempt(a, n) == a = n - 1

\* what the loop does with the result r of Transmitter::send in attempt a
after_send_ignore(r, a) == [pc |-> "set_timeout", result |-> "none"]

after_send(r, a) ==
    IF r = "Ok" THEN [pc |-> "set_timeout", result |-> "none"]
    ELSE [pc |-> "done", result |-> r]

\* what the loop does with the result r of wait_for_ack in attempt a of n
after_wait_no_return(r, a, n) ==
    IF r \notin {"true", "false"} THEN [pc |-> "done", result |-> r, attempt |-> a]
    ELSE IF is_final_attempt(a, n)
    THEN [pc |-> "done", result |-> "MaxRetriesExceeded", attempt |-> a]
    ELSE IF in_range(a + 1, n) THEN [pc |-> "send", result |-> "none", attempt |-> a + 1]
    ELSE [pc |-> "done", result |-> "MaxRetriesExceeded", attempt |-> a + 1]

after_wait_one_more(r, a, n) ==
    IF r = "true" THEN [pc |-> "done", result |-> "true", attempt |-> a]
    ELSE IF r # "false" THEN [pc |-> "done", result |-> r, attempt |-> a]
    ELSE IF a = n
    THEN [pc |-> "done", result |-> "MaxRetriesExceeded", attempt |-> a]
    ELSE IF in_range_inclusive(a + 1, n)
    THEN [pc |-> "send", result |-> "none", attempt |-> a + 1]
    ELSE [pc |-> "done", result |-> "MaxRetriesExceeded", attempt |-> a + 1]

after_wait_skip(r, a, n) ==
    IF r = "true" THEN [pc |-> "done", result |-> "true", attempt |-> a]
    ELSE IF r # "false" THEN [pc |-> "done", result |-> r, attempt |-> a]
    ELSE IF is_final_attempt(a, n) \/ is_final_attempt(a + 1, n)
    THEN [pc |-> "done", result |-> "MaxRetriesExceeded", attempt |-> a]
    ELSE IF in_range(a + 2, n) THEN [pc |-> "send", result |-> "none", attempt |-> a + 2]
    ELSE [pc |-> "done", result |-> "MaxRetriesExceeded", attempt |-> a + 2]

after_wait(r, a, n) ==
    IF r = "true" THEN [pc |-> "done", result |-> "true", attempt |-> a]
    ELSE IF r # "false" THEN [pc |-> "done", result |-> r, attempt |-> a]
    ELSE IF is_final_attempt(a, n)
    THEN [pc |-> "done", result |-> "MaxRetriesExceeded", attempt |-> a]
    ELSE IF in_range(a + 1, n) THEN [pc |-> "send", result |-> "none", attempt |-> a + 1]
    ELSE [pc |-> "done", result |-> "MaxRetriesExceeded", attempt |-> a + 1]

SomeTimeout(ms) == [some |-> TRUE, ms |-> ms]

set_read_timeout_accepts_zero(timeout_ms, os_ok) == IF os_ok THEN "Ok" ELSE "IoError"

\* socket.set_read_timeout(Some(Duration::from_millis(timeout_ms))) mapped to
\* IoError: the standard library rejects a zero duration, and the operating
\* system may refuse the option (os_ok)
set_read_timeout(timeout_ms, os_ok) ==
    IF timeout_ms # <<>> /\ os_ok THEN "Ok" ELSE "IoError"

\* the operation op was called outside send_critical_alert and has returned
ReturnedFrom(op) == call.op = op /\ ret.done

\* the threads that encode
Encoders == 1..MaxEncoders

\* a thread that is not inside serialize_payload and has not called it yet
IdleEncoder ==
    [pc |-> "idle", payload |-> NoSensorPayload, next |-> 0, out |-> <<>>,
     encoded |-> NoSensorPayload]

\* the RetransmissionState instances, each for the exchange of one device
Instances == {1, 2}

\* the two concurrent calls of send_critical_alert and the sockets of their
\* callers
Exchanges == {1, 2}

Sockets == {1, 2}

\* a call that has not been made
\* sent are the datagrams given to send_to with their destinations, expected
\* the device id and timestamp that each wait_for_ack was given
IdleExchange ==
    [pc |-> "idle", max_retries |-> 0, attempt |-> 0, result |-> "none", sends |-> 0,
     in_flight |-> 0, sent |-> <<>>, expected |-> <<>>]

\* a socket with nothing queued and no read timeout
NewSocket == [queue |-> <<>>, read_timeout |-> NoTimeout]

\* the states in which the caller takes up instance i: as new made it, or, for
\* the first instance, as the calls of schedule_next_retry in attempts left it
RetransmissionStarts(i, attempts) ==
    {[RetransmissionState_new(i, Nat2Big(1000), 0) EXCEPT !.attempt = a] :
        a \in IF i = 1 THEN attempts ELSE {<<>>}}

\* scheduled[i] is the number of schedule_next_retry calls that have returned
\* on instance i since new made it
ExtInitFrom(attempts) ==
    /\ encoders = [e \in Encoders |-> IdleEncoder]
    /\ heap = [e \in Encoders |-> <<>>]
    /\ rtx \in {f \in [Instances -> UNION {RetransmissionStarts(i, attempts) : i \in Instances}] :
                  \A i \in Instances : f[i] \in RetransmissionStarts(i, attempts)}
    /\ scheduled = [i \in Instances |-> rtx[i].attempt]
    /\ clock = 0
    /\ exchanges = [e \in Exchanges |-> IdleExchange]
    /\ sockets = [s \in Sockets |-> NewSocket]
    /\ bound = [e \in Exchanges |-> 0]
    /\ acked = [e \in Exchanges |-> FALSE]
    /\ stolen = [e \in Exchanges |-> FALSE]

ExtInit == ExtInitFrom({<<>>})

Init ==
    /\ pc = "idle"
    /\ max_retries = 0
    /\ base_timeout_ms = <<>>
    /\ payload \in Payloads
    /\ attempt = 0
    /\ result = "none"
    /\ read_timeout = NoTimeout
    /\ sends = 0
    /\ waits = 0
    /\ waitLog = <<>>
    /\ lastRecv = RecvErr("none")
    /\ sendFailedAt = -1
    /\ timeoutFailedAt = -1
    /\ toGateway = 0
    /\ toSender = <<>>
    /\ gatewayGot = 0
    /\ call = NoCall
    /\ ret = NoRet
    /\ config = ReceiverBuilder_new
    /\ wire = <<>>
    /\ ExtInit

\* the call and the loop head of the first iteration (the loop body is skipped
\* and line 182 reached only when max_retries = 0)
Call ==
    /\ pc = "idle"
    /\ \E a \in CallArguments :
          /\ max_retries' = a[1]
          /\ base_timeout_ms' = a[2]
          /\ IF in_range(0, a[1])
             THEN pc' = "send" /\ result' = "none"
             ELSE pc' = "done" /\ result' = "MaxRetriesExceeded"
    /\ attempt' = 0
    /\ UNCHANGED <<payload, read_timeout, sends, waits, waitLog, lastRecv,
                   sendFailedAt, timeoutFailedAt, toGateway, toSender, gatewayGot>>
    /\ UNCHANGED fnVars

\* Transmitter::send on the payloads of the calls, with what the serializer and
\* socket.send_to answer, evaluated once
PayloadSends ==
    {[payload |-> p, enc |-> enc, send_to |-> send_to,
      res |-> Transmitter_send(p, enc, send_to)] :
        p \in Payloads, enc \in {"ok", "err"}, send_to \in {"ok", "err"}}

\* Transmitter::send(socket, payload, gateway_address)?
SendPayload ==
    /\ pc = "send"
    /\ sends' = sends + 1
    /\ \E s \in PayloadSends :
          LET r == s.res IN
          /\ s.payload = payload
          /\ pc' = after_send(r, attempt).pc
          /\ result' = after_send(r, attempt).result
          /\ IF r = "Ok"
             THEN /\ toGateway' = IF toGateway < MaxInFlight THEN toGateway + 1
                                  ELSE toGateway
                  /\ UNCHANGED sendFailedAt
             ELSE /\ sendFailedAt' = attempt
                  /\ UNCHANGED toGateway
    /\ UNCHANGED <<max_retries, base_timeout_ms, payload, attempt, read_timeout, waits,
                   waitLog, lastRecv, timeoutFailedAt, toSender, gatewayGot>>
    /\ UNCHANGED fnVars

\* the ceiling base_timeout_ms * 10, calculate_backoff_ms and set_read_timeout.
\* The product is a plain u64 multiplication: when it overflows the build either
\* panics (overflow checks) or wraps.  set_read_timeout rejects a zero duration
\* and may fail in the operating system.
SetTimeout ==
    /\ pc = "set_timeout"
    /\ \E product \in {plain_mul(base_timeout_ms, Nat2Big(10))} :
       \/ /\ ~product.fits
          /\ pc' = "done"
          /\ result' = "Panic"
          /\ timeoutFailedAt' = attempt
          /\ UNCHANGED read_timeout
       \/ \E timeout_ms \in {calculate_backoff_ms(attempt, base_timeout_ms, product.wrapped)},
             set_ok \in BOOLEAN :
             IF set_read_timeout(timeout_ms, set_ok) = "Ok"
             THEN /\ pc' = "wait"
                  /\ read_timeout' = SomeTimeout(timeout_ms)
                  /\ UNCHANGED <<result, timeoutFailedAt>>
             ELSE /\ pc' = "done"
                  /\ result' = set_read_timeout(timeout_ms, set_ok)
                  /\ timeoutFailedAt' = attempt
                  /\ UNCHANGED read_timeout
    /\ UNCHANGED <<max_retries, base_timeout_ms, payload, attempt, sends, waits, waitLog,
                   lastRecv,                   sendFailedAt, toGateway, toSender, gatewayGot>>
    /\ UNCHANGED fnVars

\* what socket.recv_from can return now: the first queued datagram, or with an
\* empty queue a timeout (reported as WouldBlock or TimedOut by the platform);
\* any other socket error at any time
RecvOutcomes ==
    (IF toSender # <<>> THEN {RecvData(Head(toSender))}
     ELSE {RecvErr("WouldBlock"), RecvErr("TimedOut")})
    \cup {RecvErr("Other")}

\* wait_for_ack(...)? and the rest of the loop body
WaitForAck ==
    /\ pc = "wait"
    /\ waits' = waits + 1
    /\ \E recv \in RecvOutcomes :
          LET r == wait_for_ack(recv, payload.device_unique_id, payload.timestamp_ms_utc) IN
          /\ toSender' = IF recv.kind = "data" THEN Tail(toSender) ELSE toSender
          /\ waitLog' = Append(waitLog, [kind |-> recv.kind, res |-> r])
          /\ lastRecv' = recv
          /\ pc' = after_wait(r, attempt, max_retries).pc
          /\ result' = after_wait(r, attempt, max_retries).result
          /\ attempt' = after_wait(r, attempt, max_retries).attempt
    /\ UNCHANGED <<max_retries, base_timeout_ms, payload, read_timeout, sends,
                   sendFailedAt, timeoutFailedAt, toGateway, gatewayGot>>
    /\ UNCHANGED fnVars

\* The sender looks at its socket only in recv_from, and a datagram that reaches
\* the socket earlier stays queued until then: the channel acts while the call waits.
Running == pc = "wait"

Enqueue(d) == IF Len(toSender) < MaxInFlight THEN Append(toSender, d) ELSE toSender

\* the gateway receives a payload datagram and answers with send_ack
GatewayAck ==
    /\ Running
    /\ toGateway > 0
    /\ toGateway' = toGateway - 1
    /\ gatewayGot' = gatewayGot + 1
    /\ toSender' = Enqueue(Datagram(serialize_ack(
                       AckPacket_ack(payload.device_unique_id, payload.timestamp_ms_utc)),
                       "gateway"))
    /\ UNCHANGED <<pc, max_retries, base_timeout_ms, payload, attempt, result, read_timeout,
                   sends, waits, waitLog, lastRecv, sendFailedAt, timeoutFailedAt>>
    /\ UNCHANGED fnVars

\* the gateway receives a payload datagram and answers with send_nack
GatewayNack ==
    /\ Running
    /\ toGateway > 0
    /\ toGateway' = toGateway - 1
    /\ gatewayGot' = gatewayGot + 1
    /\ toSender' = Enqueue(Datagram(serialize_ack(
                       AckPacket_nack(payload.device_unique_id, payload.timestamp_ms_utc)),
                       "gateway"))
    /\ UNCHANGED <<pc, max_retries, base_timeout_ms, payload, attempt, result, read_timeout,
                   sends, waits, waitLog, lastRecv, sendFailedAt, timeoutFailedAt>>
    /\ UNCHANGED fnVars

\* the transport loses a payload datagram
LosePayload ==
    /\ Running
    /\ toGateway > 0
    /\ toGateway' = toGateway - 1
    /\ UNCHANGED <<pc, max_retries, base_timeout_ms, payload, attempt, result, read_timeout,
                   sends, waits, waitLog, lastRecv, sendFailedAt, timeoutFailedAt,
                   toSender, gatewayGot>>
    /\ UNCHANGED fnVars

\* another peer sends a datagram to the sender's socket
StrayDatagram ==
    /\ Running
    /\ Len(toSender) < MaxInFlight
    /\ \E b \in StrayBytes(payload) : toSender' = Append(toSender, Datagram(b, "other"))
    /\ UNCHANGED <<pc, max_retries, base_timeout_ms, payload, attempt, result, read_timeout,
                   sends, waits, waitLog, lastRecv, sendFailedAt, timeoutFailedAt,
                   toGateway, gatewayGot>>
    /\ UNCHANGED fnVars

Next ==
    \/ Call
    \/ SendPayload
    \/ SetTimeout
    \/ WaitForAck
    \/ GatewayAck
    \/ GatewayNack
    \/ LosePayload
    \/ StrayDatagram

Spec == Init /\ [][Next]_vars

\* a step of the thread that runs send_critical_alert
AlertStep == Call \/ SendPayload \/ SetTimeout \/ WaitForAck

\* the call runs on its own thread and its blocking calls return: a send returns,
\* and a receive returns at the latest when the read timeout set before it expires
FairSpec == Spec /\ WF_vars(AlertStep)

----------------------------------------------------------------------------
(* calculate_backoff_ms evaluated on sampled arguments.                    *)

MaxSampleAttempt == 10

BackoffAttempts == 0..MaxSampleAttempt \cup {62, 63, 64, 65, 130}

BackoffBases ==
    {Nat2Big(0), Nat2Big(1), Nat2Big(100), BigPow(<<2>>, 32), BigPow(<<2>>, 63), U64_MAX}

BackoffCeilings == {Nat2Big(0), Nat2Big(5000), Nat2Big(10000), BigPow(<<2>>, 63), U64_MAX}

InitBackoff ==
    /\ pc = "idle"
    /\ max_retries = 0
    /\ base_timeout_ms = <<>>
    /\ payload \in Payloads
    /\ attempt = 0
    /\ result = "none"
    /\ read_timeout = NoTimeout
    /\ sends = 0
    /\ waits = 0
    /\ waitLog = <<>>
    /\ lastRecv = RecvErr("none")
    /\ sendFailedAt = -1
    /\ timeoutFailedAt = -1
    /\ toGateway = 0
    /\ toSender = <<>>
    /\ gatewayGot = 0
    /\ call \in [op : {"calculate_backoff_ms"}, attempt : BackoffAttempts,
                 base_ms : BackoffBases, max_delay_ms : BackoffCeilings]
    /\ ret = NoRet
    /\ config = ReceiverBuilder_new
    /\ wire = <<>>
    /\ ExtInit

EvalBackoff ==
    /\ call.op = "calculate_backoff_ms"
    /\ ~ret.done
    /\ ret' = [done |-> TRUE,
               val |-> calculate_backoff_ms(call.attempt, call.base_ms, call.max_delay_ms)]
    /\ UNCHANGED <<call, config, wire>>
    /\ UNCHANGED alertVars
    /\ UNCHANGED extVars

NextBackoff == EvalBackoff

SpecBackoff == InitBackoff /\ [][NextBackoff]_vars

----------------------------------------------------------------------------
(* The constructors of src/src/contracts.rs called on sampled arguments.   *)

DeviceIds == {0, 1, 42}

BatteryLevels == {0, 100, 101, 255}

Timestamps == {Nat2Big(1000), U64_MAX}

TimeToLives == {0, 100, 2^16 - 1}

\* the bit patterns of 0.0, 1.0, f32::MIN_POSITIVE and f32::MAX / 2.0
BoundaryBits == <<0, 1065353216, 8388608, 2130706431>>

AnomalyVectors ==
    {[i \in 1..ANOMALY_VECTOR_SIZE |-> 0], [i \in 1..ANOMALY_VECTOR_SIZE |-> i],
     [i \in 1..ANOMALY_VECTOR_SIZE |-> BoundaryBits[(i % 4) + 1]]}

SensorPayloadArgs ==
    [device_unique_id : DeviceIds, timestamp_ms_utc : Timestamps,
     sensor_model_version : {1}, battery_level_percent : BatteryLevels,
     time_to_live_ms : TimeToLives, raw_data_hash_crc : {305419896},
     anomaly_ai_vector : AnomalyVectors]

GatewayIds == {0, 1, 7}

ConsensusModes == {0, 1, 2, 255}

DLTTransactionRecordArgs ==
    [gateway_unique_id : GatewayIds, final_anomaly_score : {0, 95},
     is_critical_alert : BOOLEAN, consensus_mode_used : ConsensusModes,
     source_payload_hash : {[i \in 1..32 |-> 0], [i \in 1..32 |-> i]},
     gateway_signature : {[i \in 1..64 |-> 0]}]

NewSensorPayload ==
    /\ \E a \in SensorPayloadArgs :
          /\ call' = [op |-> "SensorPayload::new", args |-> a]
          /\ ret' = [done |-> TRUE,
                     val |-> SensorPayload_new(a.device_unique_id, a.timestamp_ms_utc,
                                a.sensor_model_version, a.battery_level_percent,
                                a.time_to_live_ms, a.raw_data_hash_crc,
                                a.anomaly_ai_vector)]
    /\ UNCHANGED <<config, wire>>
    /\ UNCHANGED alertVars
    /\ UNCHANGED extVars

NewDLTTransactionRecord ==
    /\ \E a \in DLTTransactionRecordArgs :
          /\ call' = [op |-> "DLTTransactionRecord::new", args |-> a]
          /\ ret' = [done |-> TRUE,
                     val |-> DLTTransactionRecord_new(a.gateway_unique_id,
                                a.final_anomaly_score, a.is_critical_alert,
                                a.consensus_mode_used, a.source_payload_hash,
                                a.gateway_signature)]
    /\ UNCHANGED <<config, wire>>
    /\ UNCHANGED alertVars
    /\ UNCHANGED extVars

NextContracts == NewSensorPayload \/ NewDLTTransactionRecord

SpecContracts == Init /\ [][NextContracts]_vars

----------------------------------------------------------------------------
(* The gateway side: the ReceiverBuilder, the operations of Receiver on    *)
(* what recv_from returns, SensorPayload::is_expired, and a call of        *)
(* wait_for_ack.  recv_from returns the datagram that arrives next, or,    *)
(* when the socket has a read timeout and nothing arrives in time, a       *)
(* timeout, or another socket error.                                       *)

MaxBatch == 2

GoodView ==
    SensorPayload_new(42, Nat2Big(1000), 1, 50, 100, 305419896,
                      [i \in 1..ANOMALY_VECTOR_SIZE |-> 0]).value

\* 2^64 - 11
NearMaxTimestamp == [U64_MAX EXCEPT ![1] = Digit - 11]

\* views that untrusted bytes can decode to
RxViews ==
    {GoodView,
     [GoodView EXCEPT !.device_unique_id = 0],
     [GoodView EXCEPT !.battery_level_percent = 101],
     [GoodView EXCEPT !.device_unique_id = 0, !.battery_level_percent = 101],
     [GoodView EXCEPT !.timestamp_ms_utc = NearMaxTimestamp]}

RxBytes ==
    {PayloadBytes(size_of_SensorPayload - 1, FALSE, NoSensorPayload),
     PayloadBytes(size_of_SensorPayload, FALSE, NoSensorPayload),
     PayloadBytes(MAX_PAYLOAD_SIZE + 1, FALSE, NoSensorPayload)}
    \cup {PayloadBytes(size_of_SensorPayload, TRUE, v) : v \in RxViews}

RxTimes == {Nat2Big(1000), Nat2Big(1100), Nat2Big(1101), U64_MAX}

RxOutcomes ==
    {RxData(PayloadDatagram(b, "sensor")) : b \in RxBytes}
    \cup {RxErr("WouldBlock"), RxErr("TimedOut"), RxErr("Other")}

ExpiryPayloads ==
    {GoodView,
     [GoodView EXCEPT !.time_to_live_ms = 0],
     [GoodView EXCEPT !.timestamp_ms_utc = NearMaxTimestamp],
     [GoodView EXCEPT !.timestamp_ms_utc = U64_MAX, !.time_to_live_ms = 2^16 - 1]}

BatchBufferSizes == {64, MAX_PAYLOAD_SIZE}

\* no receive_batch is in progress on the gateway's thread
RxIdle == call.op # "receive_batch" \/ ret.done

WithBufferSize ==
    /\ RxIdle
    /\ \E size \in {MAX_PAYLOAD_SIZE, 2 * MAX_PAYLOAD_SIZE} :
          config' = with_buffer_size(config, size)
    /\ UNCHANGED <<call, ret, wire>>
    /\ UNCHANGED alertVars
    /\ UNCHANGED extVars

WithCrcCheck ==
    /\ RxIdle
    /\ \E enable \in BOOLEAN : config' = with_crc_check(config, enable)
    /\ UNCHANGED <<call, ret, wire>>
    /\ UNCHANGED alertVars
    /\ UNCHANGED extVars

WithTtlCheck ==
    /\ RxIdle
    /\ \E enable \in BOOLEAN : config' = with_ttl_check(config, enable)
    /\ UNCHANGED <<call, ret, wire>>
    /\ UNCHANGED alertVars
    /\ UNCHANGED extVars

Receive ==
    /\ RxIdle
    /\ \E recv \in RxOutcomes :
          /\ call' = [op |-> "receive", recv |-> recv, now |-> <<>>]
          /\ ret' = [done |-> TRUE, val |-> Receiver_receive(recv)]
    /\ UNCHANGED <<config, wire>>
    /\ UNCHANGED alertVars
    /\ UNCHANGED extVars

ReceiveWithTtlCheck ==
    /\ RxIdle
    /\ \E recv \in RxOutcomes, now \in RxTimes :
          /\ call' = [op |-> "receive_with_ttl_check", recv |-> recv, now |-> now]
          /\ ret' = [done |-> TRUE, val |-> receive_with_ttl_check(recv, now)]
    /\ UNCHANGED <<config, wire>>
    /\ UNCHANGED alertVars
    /\ UNCHANGED extVars

ReceiveValidated ==
    /\ RxIdle
    /\ \E recv \in RxOutcomes, now \in RxTimes :
          /\ call' = [op |-> "receive_validated", recv |-> recv, now |-> now]
          /\ ret' = [done |-> TRUE, val |-> receive_validated(recv, now)]
    /\ UNCHANGED <<config, wire>>
    /\ UNCHANGED alertVars
    /\ UNCHANGED extVars

IsExpired ==
    /\ RxIdle
    /\ \E self \in ExpiryPayloads, now \in RxTimes :
          /\ call' = [op |-> "is_expired", self |-> self, now |-> now]
          /\ ret' = [done |-> TRUE, val |-> is_expired(self, now)]
    /\ UNCHANGED <<config, wire>>
    /\ UNCHANGED alertVars
    /\ UNCHANGED extVars

\* wait_for_ack called on a socket on which no datagram is queued
WaitForAckCall ==
    /\ RxIdle
    /\ \E recv \in RecvOutcomes :
          /\ call' = [op |-> "wait_for_ack", recv |-> recv, now |-> <<>>]
          /\ ret' = [done |-> TRUE,
                     val |-> wait_for_ack(recv, payload.device_unique_id,
                                          payload.timestamp_ms_utc)]
    /\ UNCHANGED <<config, wire>>
    /\ UNCHANGED alertVars
    /\ UNCHANGED extVars

\* a recv_from that returns every datagram whole, whatever the buffer holds
recv_into_unbounded(recv, buffer_size) == {recv}

\* what recv_from returns when the socket delivers recv into a buffer of
\* buffer_size bytes: a datagram that does not fit is cut to the buffer, or on
\* platforms that refuse it the call fails
recv_into(recv, buffer_size) ==
    IF recv.kind = "data" /\ recv.dgram.len > buffer_size
    THEN {RxData(PayloadDatagram(PayloadBytes(buffer_size, FALSE, NoSensorPayload),
                                 recv.dgram.from)),
          RxErr("Other")}
    ELSE {recv}

\* recv_buffer[..bytes_received].to_vec()
to_vec(dgram) == PayloadBytes(dgram.len, dgram.wellformed, dgram.view)

\* receive_batch before its first recv_from
NoBatch == [res |-> "none", batch |-> <<>>, receives |-> 0, last |-> "none", arrived |-> <<>>]

\* receive_batch up to the first recv_from (none when count is 0)
ReceiveBatchCall ==
    /\ RxIdle
    /\ \E count \in 0..MaxBatch, buffer_size \in BatchBufferSizes :
          /\ call' = [op |-> "receive_batch", count |-> count,
                      buffer_size |-> buffer_size]
          /\ ret' = IF in_range(0, count)
                    THEN [done |-> FALSE, val |-> NoBatch]
                    ELSE [done |-> TRUE, val |-> [NoBatch EXCEPT !.res = "Ok"]]
    /\ UNCHANGED <<config, wire>>
    /\ UNCHANGED alertVars
    /\ UNCHANGED extVars

\* one iteration of the loop of receive_batch; last is what its recv_from
\* returned and arrived the datagrams, as they were sent, that its recv_from
\* calls have taken from the socket
ReceiveBatchStep ==
    /\ call.op = "receive_batch"
    /\ ~ret.done
    /\ \E delivered \in RxOutcomes :
       \E recv \in recv_into(delivered, call.buffer_size) :
          LET receives == ret.val.receives + 1 IN
          IF recv.kind # "data"
          THEN ret' = [done |-> TRUE,
                       val |-> [ret.val EXCEPT !.res = "IoError", !.batch = <<>>,
                                               !.receives = receives,
                                               !.last = recv.kind]]
          ELSE LET batch == Append(ret.val.batch, to_vec(recv.dgram))
                   arrived == Append(ret.val.arrived, delivered.dgram) IN
               IF in_range(receives, call.count)
               THEN ret' = [done |-> FALSE,
                            val |-> [res |-> "none", batch |-> batch,
                                     receives |-> receives, last |-> recv.kind,
                                     arrived |-> arrived]]
               ELSE ret' = [done |-> TRUE,
                            val |-> [res |-> "Ok", batch |-> batch,
                                     receives |-> receives, last |-> recv.kind,
                                     arrived |-> arrived]]
    /\ UNCHANGED <<call, config, wire>>
    /\ UNCHANGED alertVars
    /\ UNCHANGED extVars

NextReceiver ==
    \/ WithBufferSize
    \/ WithCrcCheck
    \/ WithTtlCheck
    \/ Receive
    \/ ReceiveWithTtlCheck
    \/ ReceiveValidated
    \/ IsExpired
    \/ WaitForAckCall
    \/ ReceiveBatchCall
    \/ ReceiveBatchStep

SpecReceiver == Init /\ [][NextReceiver]_vars

----------------------------------------------------------------------------
(* The sensor side: Transmitter called on constructed payloads and on raw  *)
(* byte strings of sampled lengths.                                        *)

\* the values SensorPayload::new returns for the sampled arguments
BuiltPayloads ==
    {r.value : r \in {x \in {SensorPayload_new(a.device_unique_id, a.timestamp_ms_utc,
                                  a.sensor_model_version, a.battery_level_percent,
                                  a.time_to_live_ms, a.raw_data_hash_crc,
                                  a.anomaly_ai_vector) : a \in SensorPayloadArgs} :
                         x.res = "Ok"}}

RawLengths ==
    {0, 1, size_of_SensorPayload, MAX_PAYLOAD_SIZE - 1, MAX_PAYLOAD_SIZE,
     MAX_PAYLOAD_SIZE + 1, 2 * MAX_PAYLOAD_SIZE}

\* the batches given to serialize_batch and what the serializer answers for
\* each element
BatchPayloads ==
    {GoodView, [GoodView EXCEPT !.device_unique_id = 1],
     [GoodView EXCEPT !.timestamp_ms_utc = U64_MAX, !.time_to_live_ms = 2^16 - 1]}

Batches == UNION {[1..n -> BatchPayloads] : n \in 0..MaxBatch}

\* every call of serialize_payload on the sampled payloads with what it returns
SerializePayloadCalls ==
    {[call |-> [op |-> "serialize_payload", payload |-> p, len |-> 0,
                send_to |-> "none", enc |-> enc],
      ret |-> [done |-> TRUE, val |-> serialize_payload(p, enc)]] :
        p \in BuiltPayloads, enc \in {"ok", "err"}}

SerializePayload ==
    /\ \E c \in SerializePayloadCalls :
          /\ call' = c.call
          /\ ret' = c.ret
    /\ wire' = <<>>
    /\ UNCHANGED config
    /\ UNCHANGED alertVars
    /\ UNCHANGED extVars

\* check_archived_root on the bytes that the last serialize_payload returned,
\* on those bytes without their last byte, and on those bytes after 4 or 8
\* bytes of something else
CheckArchivedRoot ==
    /\ ReturnedFrom("serialize_payload")
    /\ ret.val.ok
    /\ \E bytes \in {ret.val.bytes, SubSeq(ret.val.bytes, 1, Len(ret.val.bytes) - 1),
                     zeroed(4) \o ret.val.bytes, zeroed(8) \o ret.val.bytes} :
          /\ call' = [op |-> "check_archived_root", payload |-> call.payload,
                      encoded |-> ret.val.bytes, bytes |-> bytes]
          /\ ret' = [done |-> TRUE, val |-> check_archived_root_SensorPayload(bytes)]
    /\ wire' = <<>>
    /\ UNCHANGED config
    /\ UNCHANGED alertVars
    /\ UNCHANGED extVars

\* every call of serialize_batch on the sampled batches with what it returns
SerializeBatchCalls ==
    UNION {{[call |-> [op |-> "serialize_batch", payloads |-> payloads, encs |-> encs],
             ret |-> [done |-> TRUE, val |-> serialize_batch(payloads, encs)]] :
               encs \in [1..Len(payloads) -> {"ok", "err"}]} : payloads \in Batches}

SerializeBatch ==
    /\ \E c \in SerializeBatchCalls :
          /\ call' = c.call
          /\ ret' = c.ret
    /\ wire' = <<>>
    /\ UNCHANGED config
    /\ UNCHANGED alertVars
    /\ UNCHANGED extVars

\* every call of send on the sampled payloads with what it returns
TransmitterSendCalls ==
    {[call |-> [op |-> "send", payload |-> p, len |-> 0, send_to |-> send_to,
                enc |-> enc],
      ret |-> [done |-> TRUE, val |-> send(p, enc, send_to)]] :
        p \in BuiltPayloads, enc \in {"ok", "err"}, send_to \in {"ok", "err"}}

TransmitterSend ==
    /\ \E c \in TransmitterSendCalls :
          /\ call' = c.call
          /\ ret' = c.ret
          /\ wire' = c.ret.val.datagrams
    /\ UNCHANGED config
    /\ UNCHANGED alertVars
    /\ UNCHANGED extVars

TransmitterSendRaw ==
    /\ \E len \in RawLengths, send_to \in {"ok", "err"} :
          /\ call' = [op |-> "send_raw", payload |-> NoSensorPayload, len |-> len,
                      send_to |-> send_to, enc |-> "none"]
          /\ ret' = [done |-> TRUE, val |-> send_raw(len, send_to)]
          /\ wire' = send_raw(len, send_to).datagrams
    /\ UNCHANGED config
    /\ UNCHANGED alertVars
    /\ UNCHANGED extVars

NextTransmitter ==
    \/ SerializePayload
    \/ CheckArchivedRoot
    \/ SerializeBatch
    \/ TransmitterSend
    \/ TransmitterSendRaw

SpecTransmitter == Init /\ [][NextTransmitter]_vars

----------------------------------------------------------------------------
(* Threads that call serialize_payload at the same time.  A call creates   *)
(* its serializer (to_bytes), whose buffer is zeroed where the archive     *)
(* goes, resolves the fields into it one after the other and returns a     *)
(* copy of the buffer (to_vec); the serializer is dropped on return.       *)

EncoderPayloads ==
    {[GoodView EXCEPT !.anomaly_ai_vector =
                          [i \in 1..ANOMALY_VECTOR_SIZE |-> BoundaryBits[(i % 4) + 1]]],
     [GoodView EXCEPT !.device_unique_id = 1, !.timestamp_ms_utc = U64_MAX]}

\* every call writes to the buffer of the serializer it created
buffer_shared(e) == 1

buffer_of(e) == e

EncodeCall(e) ==
    /\ encoders[e].pc = "idle"
    /\ \E p \in EncoderPayloads :
          encoders' = [encoders EXCEPT ![e].pc = "resolve", ![e].payload = p,
                                       ![e].next = 1]
    /\ heap' = [heap EXCEPT ![buffer_of(e)] = zeroed(size_of_ArchivedSensorPayload)]
    /\ UNCHANGED <<call, ret, config, wire, rtx, scheduled, clock, pairVars>>
    /\ UNCHANGED alertVars

EncodeField(e) ==
    /\ encoders[e].pc = "resolve"
    /\ heap' = [heap EXCEPT ![buffer_of(e)] =
                     resolve_field(heap[buffer_of(e)], encoders[e].payload,
                                   encoders[e].next)]
    /\ encoders' = [encoders EXCEPT
                       ![e].next = encoders[e].next + 1,
                       ![e].pc = IF encoders[e].next = Len(ArchivedFields)
                                 THEN "to_vec" ELSE "resolve"]
    /\ UNCHANGED <<call, ret, config, wire, rtx, scheduled, clock, pairVars>>
    /\ UNCHANGED alertVars

EncodeReturn(e) ==
    /\ encoders[e].pc = "to_vec"
    /\ encoders' = [encoders EXCEPT ![e].pc = "idle", ![e].next = 0,
                                       ![e].out = heap[buffer_of(e)],
                                       ![e].encoded = encoders[e].payload]
    /\ heap' = [heap EXCEPT ![buffer_of(e)] = <<>>]
    /\ UNCHANGED <<call, ret, config, wire, rtx, scheduled, clock, pairVars>>
    /\ UNCHANGED alertVars

NextEncoders == \E e \in Encoders : EncodeCall(e) \/ EncodeField(e) \/ EncodeReturn(e)

SpecEncoders == Init /\ [][NextEncoders]_vars

----------------------------------------------------------------------------
(* A caller that owns RetransmissionState instances and calls their        *)
(* operations while the clock advances.  call keeps the last new or        *)
(* schedule_next_retry: the instance, the arguments, the clock readings    *)
(* and the instances as they were before it.                               *)

\* the numbers of returned calls after which the model's callers call again
SchedulableCounts ==
    {BigAdd(start, Nat2Big(k)) : start \in {<<>>, ManySchedules}, k \in 0..(MaxSchedules - 1)}

\* RetransmissionState::new for the exchange of device i
New(i) ==
    /\ rtx' = [rtx EXCEPT ![i] = RetransmissionState_new(i, Nat2Big(1000), clock)]
    /\ scheduled' = [scheduled EXCEPT ![i] = <<>>]
    /\ call' = [op |-> "new", self |-> i, base_ms |-> <<>>, now1 |-> clock,
                overflow_checks |-> FALSE]
    /\ ret' = [done |-> TRUE, val |-> "Ok"]
    /\ UNCHANGED <<clock, encoders, heap, config, wire, pairVars>>
    /\ UNCHANGED alertVars

\* schedule_next_retry on instance i; the clock may advance between its two
\* readings, and whether the build checks overflow matters when the ceiling
\* or the attempt overflows
ScheduleNextRetry(i) ==
    /\ scheduled[i] \in SchedulableCounts
    /\ \E base_ms \in ScheduleBases, now2 \in {t \in {clock, clock + 1} : t <= MaxClock} :
       \E overflow_checks \in
              IF backoff_of(<<>>, base_ms, TRUE).res = "Ok" /\ rtx[i].attempt # U32_MAX
              THEN {FALSE} ELSE BOOLEAN :
          LET r == schedule_next_retry(rtx[i], base_ms, clock, now2, overflow_checks) IN
          /\ rtx' = [rtx EXCEPT ![i] = r.state]
          /\ scheduled' = [scheduled EXCEPT
                              ![i] = IF r.res = "Ok" THEN BigAdd(scheduled[i], <<1>>)
                                     ELSE scheduled[i]]
          /\ clock' = now2
          /\ call' = [op |-> "schedule_next_retry", self |-> i, base_ms |-> base_ms,
                      now1 |-> clock, overflow_checks |-> overflow_checks]
          /\ ret' = [done |-> TRUE, val |-> r.res]
    /\ UNCHANGED <<encoders, heap, config, wire, pairVars>>
    /\ UNCHANGED alertVars

\* time passes
Tick ==
    /\ clock < MaxClock
    /\ clock' = clock + 1
    /\ UNCHANGED <<rtx, scheduled, encoders, heap, call, ret, config, wire, pairVars>>
    /\ UNCHANGED alertVars

NextRetransmission == Tick \/ \E i \in Instances : New(i) \/ ScheduleNextRetry(i)

InitRetransmission ==
    /\ pc = "idle"
    /\ max_retries = 0
    /\ base_timeout_ms = <<>>
    /\ payload \in Payloads
    /\ attempt = 0
    /\ result = "none"
    /\ read_timeout = NoTimeout
    /\ sends = 0
    /\ waits = 0
    /\ waitLog = <<>>
    /\ lastRecv = RecvErr("none")
    /\ sendFailedAt = -1
    /\ timeoutFailedAt = -1
    /\ toGateway = 0
    /\ toSender = <<>>
    /\ gatewayGot = 0
    /\ call = NoCall
    /\ ret = NoRet
    /\ config = ReceiverBuilder_new
    /\ wire = <<>>
    /\ ExtInitFrom({<<>>, ManySchedules})

SpecRetransmission == InitRetransmission /\ [][NextRetransmission]_vars

----------------------------------------------------------------------------
(* A gateway that answers with send_ack or send_nack and a peer that calls *)
(* wait_for_ack on the datagram, expecting some device id and timestamp.   *)

AckDeviceIds == {0, 7, 42}

AckTimestamps == {<<>>, Nat2Big(1000), U64_MAX}

Addresses == {"gateway", "other"}

SendAck ==
    /\ \E d \in AckDeviceIds, t \in AckTimestamps, send_to \in {"ok", "err"} :
          /\ call' = [op |-> "send_ack", device_unique_id |-> d,
                      original_timestamp_ms |-> t, packet |-> AckPacket_ack(d, t)]
          /\ ret' = [done |-> TRUE, val |-> AckManager_send_ack(d, t, send_to)]
    /\ UNCHANGED <<config, wire>>
    /\ UNCHANGED alertVars
    /\ UNCHANGED extVars

SendNack ==
    /\ \E d \in AckDeviceIds, t \in AckTimestamps, send_to \in {"ok", "err"} :
          /\ call' = [op |-> "send_nack", device_unique_id |-> d,
                      original_timestamp_ms |-> t, packet |-> AckPacket_nack(d, t)]
          /\ ret' = [done |-> TRUE, val |-> AckManager_send_nack(d, t, send_to)]
    /\ UNCHANGED <<config, wire>>
    /\ UNCHANGED alertVars
    /\ UNCHANGED extVars

\* the peer's wait_for_ack receives the datagram that was sent
PeerWaitForAck ==
    /\ call.op \in {"send_ack", "send_nack"}
    /\ ret.done
    /\ ret.val.res = "Ok"
    /\ \E d \in AckDeviceIds, t \in AckTimestamps, from \in Addresses :
          LET recv == RecvData(received(ret.val.sent[1], from)) IN
          /\ call' = [op |-> "wait_for_ack", sent_by |-> call.op, packet |-> call.packet,
                      device_unique_id |-> d, original_timestamp_ms |-> t, recv |-> recv]
          /\ ret' = [done |-> TRUE, val |-> wait_for_ack(recv, d, t)]
    /\ UNCHANGED <<config, wire>>
    /\ UNCHANGED alertVars
    /\ UNCHANGED extVars

NextAcks == SendAck \/ SendNack \/ PeerWaitForAck

SpecAcks == Init /\ [][NextAcks]_vars

----------------------------------------------------------------------------
(* Two callers that run send_critical_alert at the same time for the       *)
(* payloads of two devices, each on the socket it passes to the call.  The *)
(* sockets are the callers' own or one socket that both use.  The gateway  *)
(* answers a payload with an ACK to the address the payload came from.     *)

\* the payload of exchange e: the devices and the timestamps differ
ExchangePayload(e) ==
    [(CHOOSE p \in Payloads : TRUE) EXCEPT !.device_unique_id = 41 + e,
                                          !.timestamp_ms_utc = Nat2Big(1000 + e)]

\* the base timeout of both calls
ExchangeBaseTimeout == Nat2Big(100)

\* the ACK the gateway sends for the payload of exchange e
ExchangeAck(e) ==
    Datagram(serialize_ack(AckPacket_ack(ExchangePayload(e).device_unique_id,
                                         ExchangePayload(e).timestamp_ms_utc)), "gateway")

\* the callers bind their sockets: one for each, or one for both
Bind ==
    /\ \A e \in Exchanges : bound[e] = 0
    /\ bound' \in {[e \in Exchanges |-> e], [e \in Exchanges |-> 1]}
    /\ UNCHANGED <<exchanges, sockets, acked, stolen>>
    /\ UNCHANGED <<call, ret, config, wire, encoders, heap, rtx, scheduled, clock>>
    /\ UNCHANGED alertVars

socket_shared(e) == 1

\* the socket that call e works on: the argument `socket`
socket_of(e) == bound[e]

recv_from_peek(queue) ==
    IF queue = <<>> THEN [recv |-> RecvErr("WouldBlock"), rest |-> <<>>]
    ELSE [recv |-> RecvData(Head(queue)), rest |-> queue]

\* socket.recv_from(buffer) on a socket with a read timeout: the first queued
\* datagram, which leaves the queue, or a timeout when none is queued
recv_from(queue) ==
    IF queue = <<>> THEN [recv |-> RecvErr("WouldBlock"), rest |-> <<>>]
    ELSE [recv |-> RecvData(Head(queue)), rest |-> Tail(queue)]

\* the call and the loop head of the first iteration
ExchangeCall(e) ==
    /\ bound[e] # 0
    /\ exchanges[e].pc = "idle"
    /\ \E n \in {1, 2, MaxExchangeRetries} :
          exchanges' = [exchanges EXCEPT
             ![e] = [IdleExchange EXCEPT
                        !.max_retries = n,
                        !.pc = IF in_range(0, n) THEN "send" ELSE "done",
                        !.result = IF in_range(0, n) THEN "none" ELSE "MaxRetriesExceeded"]]
    /\ UNCHANGED <<sockets, bound, acked, stolen>>
    /\ UNCHANGED <<call, ret, config, wire, encoders, heap, rtx, scheduled, clock>>
    /\ UNCHANGED alertVars

\* the argument gateway_address of call e
ExchangeGateway(e) == "gateway"

attempt_payload_restamped(payload_, attempt_) ==
    [payload_ EXCEPT !.timestamp_ms_utc = BigAdd(@, Nat2Big(attempt_))]

\* the payload that an attempt sends and waits for: the loop passes the
\* caller's reference in every iteration
attempt_payload(payload_, attempt_) == payload_

\* Transmitter::send and the arguments of wait_for_ack in the attempts of the
\* two calls, evaluated once: the result, the bytes given to send_to, and the
\* device id and timestamp
ExchangeSends ==
    {[exchange |-> e, attempt |-> a,
      res |-> Transmitter_send(attempt_payload(ExchangePayload(e), a), "ok", "ok"),
      bytes |-> serialize_payload(attempt_payload(ExchangePayload(e), a), "ok").bytes,
      device_unique_id |-> attempt_payload(ExchangePayload(e), a).device_unique_id,
      timestamp_ms_utc |-> attempt_payload(ExchangePayload(e), a).timestamp_ms_utc] :
        e \in Exchanges, a \in 0..MaxExchangeRetries}

ExchangeAttempt(e) ==
    CHOOSE s \in ExchangeSends : s.exchange = e /\ s.attempt = exchanges[e].attempt

\* the read timeouts of the attempts of a call, evaluated once
ExchangeTimeouts ==
    {[attempt |-> a,
      ms |-> calculate_backoff_ms(a, ExchangeBaseTimeout,
                                  WrapU64(BigMul(ExchangeBaseTimeout, Nat2Big(10))))] :
        a \in 0..MaxExchangeRetries}

\* Transmitter::send(socket, payload, gateway_address)? of call e
ExchangeSend(e) ==
    /\ exchanges[e].pc = "send"
    /\ LET r == ExchangeAttempt(e).res
           x == exchanges[e]
       IN  exchanges' = [exchanges EXCEPT
              ![e] = [x EXCEPT !.pc = after_send(r, x.attempt).pc,
                               !.result = after_send(r, x.attempt).result,
                               !.sends = x.sends + 1,
                               !.sent = Append(@, [bytes |-> ExchangeAttempt(e).bytes,
                                                   to |-> ExchangeGateway(e)]),
                               !.in_flight = IF r = "Ok" THEN 1 ELSE x.in_flight]]
    /\ UNCHANGED <<sockets, bound, acked, stolen>>
    /\ UNCHANGED <<call, ret, config, wire, encoders, heap, rtx, scheduled, clock>>
    /\ UNCHANGED alertVars

\* calculate_backoff_ms and socket.set_read_timeout of call e
ExchangeSetTimeout(e) ==
    /\ exchanges[e].pc = "set_timeout"
    /\ LET timeout_ms ==
               (CHOOSE t \in ExchangeTimeouts : t.attempt = exchanges[e].attempt).ms
       IN  sockets' = [sockets EXCEPT ![socket_of(e)].read_timeout = SomeTimeout(timeout_ms)]
    /\ exchanges' = [exchanges EXCEPT ![e].pc = "wait"]
    /\ UNCHANGED <<bound, acked, stolen>>
    /\ UNCHANGED <<call, ret, config, wire, encoders, heap, rtx, scheduled, clock>>
    /\ UNCHANGED alertVars

\* wait_for_ack(...)? of call e and the rest of the loop body
ExchangeWait(e) ==
    /\ exchanges[e].pc = "wait"
    /\ LET got == recv_from(sockets[socket_of(e)].queue)
           r == wait_for_ack(got.recv, ExchangeAttempt(e).device_unique_id,
                             ExchangeAttempt(e).timestamp_ms_utc)
           x == exchanges[e]
           next == after_wait(r, x.attempt, x.max_retries)
       IN  /\ sockets' = [sockets EXCEPT ![socket_of(e)].queue = got.rest]
           /\ exchanges' = [exchanges EXCEPT
                  ![e] = [x EXCEPT !.pc = next.pc, !.result = next.result,
                                   !.attempt = next.attempt,
                                   !.expected = Append(@,
                                      [device_unique_id |->
                                          ExchangeAttempt(e).device_unique_id,
                                       original_timestamp_ms |->
                                          ExchangeAttempt(e).timestamp_ms_utc])]]
           /\ stolen' = [f \in Exchanges |->
                            \/ stolen[f]
                            \/ f # e /\ got.recv = RecvData(ExchangeAck(f))]
    /\ UNCHANGED <<bound, acked>>
    /\ UNCHANGED <<call, ret, config, wire, encoders, heap, rtx, scheduled, clock>>
    /\ UNCHANGED alertVars

\* the gateway receives the payload of exchange e and sends its ACK to the
\* socket the payload came from
GatewayReply(e) ==
    /\ exchanges[e].in_flight > 0
    /\ Len(sockets[bound[e]].queue) < MaxQueued
    /\ exchanges' = [exchanges EXCEPT ![e].in_flight = 0]
    /\ sockets' = [sockets EXCEPT ![bound[e]].queue = Append(@, ExchangeAck(e))]
    /\ acked' = [acked EXCEPT ![e] = TRUE]
    /\ UNCHANGED <<bound, stolen>>
    /\ UNCHANGED <<call, ret, config, wire, encoders, heap, rtx, scheduled, clock>>
    /\ UNCHANGED alertVars

NextExchanges ==
    \/ Bind
    \/ \E e \in Exchanges :
          \/ ExchangeCall(e)
          \/ ExchangeSend(e)
          \/ ExchangeSetTimeout(e)
          \/ ExchangeWait(e)
          \/ GatewayReply(e)

SpecExchanges == Init /\ [][NextExchanges]_vars

----------------------------------------------------------------------------
(* Properties.                                                             *)

IsTimeout(e) == e.kind \in {"WouldBlock", "TimedOut"}

EveryWaitTimedOut == \A i \in 1..Len(waitLog) : IsTimeout(waitLog[i])

LastWait == waitLog[Len(waitLog)]

\* the last wait received a datagram that decodes as a control packet
Decodes ==
    /\ waits > 0
    /\ lastRecv.kind = "data"
    /\ lastRecv.dgram.len >= 16
    /\ lastRecv.dgram.wellformed

MatchingAck ==
    /\ lastRecv.dgram.packet.device_unique_id = payload.device_unique_id
    /\ lastRecv.dgram.packet.original_timestamp_ms = payload.timestamp_ms_utc
    /\ lastRecv.dgram.packet.ack_type = 0

\* C1 as stated: when every send succeeds and every wait times out, a call with
\* max_retries = N >= 1 ends with exactly N sends and MaxRetriesExceeded.
C1_AsStated ==
    (pc = "done" /\ max_retries >= 1 /\ sendFailedAt = -1 /\ EveryWaitTimedOut)
        => (sends = max_retries /\ result = "MaxRetriesExceeded")

\* C1 (amended): when every send succeeds, every read timeout is computed and set
\* successfully, and every wait times out, a call with max_retries = N >= 1 ends
\* with exactly N sends, N waits and MaxRetriesExceeded.
C1_NoAckExhausts ==
    (pc = "done" /\ max_retries >= 1 /\ sendFailedAt = -1 /\ timeoutFailedAt = -1
        /\ EveryWaitTimedOut)
        => (sends = max_retries /\ waits = max_retries /\ result = "MaxRetriesExceeded")

C1_Witness ==
    /\ pc = "done"
    /\ max_retries = 3
    /\ sendFailedAt = -1
    /\ timeoutFailedAt = -1
    /\ Len(waitLog) = 3
    /\ EveryWaitTimedOut
    /\ sends = 3
    /\ result = "MaxRetriesExceeded"

\* C2: if the wait of attempt k is the first wait to return true, the call has
\* returned success with exactly k+1 sends and k+1 waits, and it is the last wait:
\* no state with a further send or wait is reachable.
C2_AckReturnsAtOnce ==
    \A i \in 1..Len(waitLog) :
        waitLog[i].res = "true"
            => /\ i = Len(waitLog)
               /\ pc = "done"
               /\ result = "true"
               /\ attempt = i - 1
               /\ sends = i
               /\ waits = i

C2_Witness ==
    /\ Len(waitLog) = 2
    /\ waitLog[1].res = "false"
    /\ waitLog[2].res = "true"
    /\ result = "true"
    /\ sends = 2

\* C3: whenever the datagram a wait received decodes as a control packet,
\* wait_for_ack answers true exactly when device id and timestamp equal the expected
\* ones and ack_type is 0, and false otherwise.
C3_AckMatching ==
    Decodes
        => /\ LastWait.res \in {"true", "false"}
           /\ LastWait.res = "true" <=> MatchingAck

\* a NACK for the expected device id and timestamp
C3_Witness ==
    /\ Decodes
    /\ lastRecv.dgram.packet.device_unique_id = payload.device_unique_id
    /\ lastRecv.dgram.packet.original_timestamp_ms = payload.timestamp_ms_utc
    /\ lastRecv.dgram.packet.ack_type = 1
    /\ LastWait.res = "false"

\* C4: wait_for_ack answers false on a read timeout (WouldBlock or TimedOut) and
\* on a datagram shorter than 16 bytes, DeserializationError on a datagram of 16
\* bytes or more that fails structural validation, IoError on any other socket error.
C4_WaitClassification ==
    waits > 0
        => /\ lastRecv.kind \in {"WouldBlock", "TimedOut"} => LastWait.res = "false"
           /\ (lastRecv.kind = "data" /\ lastRecv.dgram.len < 16) => LastWait.res = "false"
           /\ (lastRecv.kind = "data" /\ lastRecv.dgram.len >= 16
                 /\ ~lastRecv.dgram.wellformed)
                => LastWait.res = "DeserializationError"
           /\ lastRecv.kind = "Other" => LastWait.res = "IoError"

C4_Witness ==
    /\ waits > 0
    /\ lastRecv.kind = "data"
    /\ lastRecv.dgram.len >= 16
    /\ ~lastRecv.dgram.wellformed
    /\ LastWait.res = "DeserializationError"
    /\ result = "DeserializationError"

C6_BoundedAndTerminates ==
    /\ (pc # "idle") ~> (pc = "done")
    /\ [](sends <= max_retries /\ waits <= sends /\ Len(waitLog) = waits)

C6_Witness ==
    /\ pc = "done"
    /\ max_retries = 3
    /\ sends = 3
    /\ waits = 2
    /\ result = "IoError"

\* the sampled values of calculate_backoff_ms(n, 100, 5000), n = 0..10
BackoffTable == <<100, 200, 400, 800, 1600, 3200, 5000, 5000, 5000, 5000, 5000>>

\* C7: calculate_backoff_ms(attempt, base_ms, max_delay_ms) is the smaller of the
\* exact product base_ms * 2^attempt and max_delay_ms, never exceeds max_delay_ms,
\* and for base 100 and ceiling 5000 takes the values of BackoffTable.
C7_BackoffFormula ==
    ret.done
        => /\ ret.val = BigMin(BigMul(call.base_ms, BigPow(<<2>>, call.attempt)),
                               call.max_delay_ms)
           /\ BigLeq(ret.val, call.max_delay_ms)
           /\ FitsU64(ret.val)
           /\ (call.base_ms = Nat2Big(100) /\ call.max_delay_ms = Nat2Big(5000)
                 /\ call.attempt \in 0..10)
                => ret.val = Nat2Big(BackoffTable[call.attempt + 1])

\* the exact product does not fit in 64 bits and the ceiling is 2^64-1
C7_Witness ==
    /\ ret.done
    /\ call.attempt = 64
    /\ call.base_ms = Nat2Big(100)
    /\ call.max_delay_ms = U64_MAX
    /\ ret.val = U64_MAX

\* C8: once the send of attempt k has failed, the call has returned that error
\* after k+1 sends and k waits: no wait for attempt k and no later send.
C8_SendFailureReturns ==
    sendFailedAt # -1
        => /\ pc = "done"
           /\ result \in {"IoError", "SerializationError", "BufferTooSmall"}
           /\ attempt = sendFailedAt
           /\ sends = sendFailedAt + 1
           /\ waits = sendFailedAt
           /\ Len(waitLog) = sendFailedAt

C8_Witness ==
    /\ sendFailedAt = 1
    /\ result = "IoError"
    /\ sends = 2
    /\ waits = 1

\* a transport-layer failure happened during the loop: a send failed, or a receive
\* failed or timed out
TransportFailure ==
    \/ sendFailedAt # -1
    \/ \E i \in 1..Len(waitLog) : waitLog[i].kind # "data"

\* C9 as stated: a call in which a transport-layer failure happened returns an
\* error only after the attempts are exhausted, and then MaxRetriesExceeded.
C9_AsStated ==
    (pc = "done" /\ TransportFailure /\ result # "true")
        => (result = "MaxRetriesExceeded" /\ sends = max_retries)

\* C9 (amended): only a wait that returns false (a read timeout, a short or a
\* non-matching datagram) is recovered by the retry loop: it is followed by the next
\* send while attempts remain, and MaxRetriesExceeded is returned only after
\* max_retries sends whose waits all returned false.  A failed send is returned at
\* once with its own error, a receive error other than a timeout at once as IoError.
C9_OnlyTimeoutsAreRetried ==
    /\ result = "MaxRetriesExceeded"
         => /\ sends = max_retries
            /\ waits = max_retries
            /\ \A i \in 1..Len(waitLog) : waitLog[i].res = "false"
    /\ \A i \in 1..Len(waitLog) :
         (waitLog[i].res = "false" /\ i < max_retries)
            => (sends > i \/ (pc = "send" /\ attempt = i))
    /\ \A i \in 1..Len(waitLog) :
         waitLog[i].kind = "Other"
            => (i = Len(waitLog) /\ pc = "done" /\ result = "IoError")
    /\ sendFailedAt # -1
         => /\ pc = "done"
            /\ result \in {"IoError", "SerializationError", "BufferTooSmall"}
            /\ waits = sendFailedAt

C9_Witness ==
    /\ pc = "done"
    /\ max_retries = 3
    /\ Len(waitLog) = 2
    /\ IsTimeout(waitLog[1])
    /\ waitLog[2].kind = "Other"
    /\ result = "IoError"
    /\ sends = 2

\* the state of the exchange seen from the retrying side
ExchangeState ==
    IF pc = "idle" THEN [st |-> "NotStarted", attempt |-> 0]
    ELSE IF result = "none" THEN [st |-> "Pending", attempt |-> attempt]
    ELSE IF result = "true" THEN [st |-> "Acked", attempt |-> 0]
    ELSE IF result = "MaxRetriesExceeded" THEN [st |-> "Exhausted", attempt |-> 0]
    ELSE [st |-> "Failed", attempt |-> 0]

\* C10 as stated: the exchange starts in Pending(0) (a call that permits no attempt
\* is Exhausted at once); Pending(k) goes to Acked, after a timeout to Pending(k+1),
\* or to Exhausted when the last permitted attempt times out; nothing else changes
\* the state.
C10_AsStated ==
    [][\/ ExchangeState' = ExchangeState
       \/ /\ ExchangeState.st = "NotStarted"
          /\ ExchangeState' = [st |-> "Pending", attempt |-> 0]
       \/ /\ ExchangeState.st = "NotStarted"
          /\ max_retries' = 0
          /\ ExchangeState'.st = "Exhausted"
       \/ /\ ExchangeState.st = "Pending"
          /\ ExchangeState'.st = "Acked"
       \/ /\ ExchangeState.st = "Pending"
          /\ ExchangeState' = [st |-> "Pending", attempt |-> ExchangeState.attempt + 1]
          /\ IsTimeout(LastWait')
       \/ /\ ExchangeState.st = "Pending"
          /\ ExchangeState'.st = "Exhausted"
          /\ ExchangeState.attempt = max_retries - 1
          /\ IsTimeout(LastWait')]_vars

\* C10 (amended): the exchange starts in Pending(0), or ends at once in Exhausted
\* when max_retries = 0.  Pending(k) goes to Acked when the wait returns true, to
\* Pending(k+1) when the wait returns false and k+1 < max_retries, to Exhausted when
\* the wait of attempt k = max_retries-1 returns false, and to Failed when a send,
\* the timeout step or a wait of attempt k ends in an error.  Acked, Exhausted and
\* Failed are terminal; the attempt number never decreases or skips.
C10_ExchangeTransitions ==
    [][\/ ExchangeState' = ExchangeState
       \/ /\ ExchangeState.st = "NotStarted"
          /\ max_retries' > 0
          /\ ExchangeState' = [st |-> "Pending", attempt |-> 0]
       \/ /\ ExchangeState.st = "NotStarted"
          /\ max_retries' = 0
          /\ ExchangeState'.st = "Exhausted"
       \/ /\ ExchangeState.st = "Pending"
          /\ ExchangeState'.st = "Acked"
          /\ waits' = waits + 1
          /\ LastWait'.res = "true"
       \/ /\ ExchangeState.st = "Pending"
          /\ ExchangeState' = [st |-> "Pending", attempt |-> ExchangeState.attempt + 1]
          /\ ExchangeState.attempt + 1 < max_retries
          /\ waits' = waits + 1
          /\ LastWait'.res = "false"
       \/ /\ ExchangeState.st = "Pending"
          /\ ExchangeState'.st = "Exhausted"
          /\ ExchangeState.attempt = max_retries - 1
          /\ waits' = waits + 1
          /\ LastWait'.res = "false"
       \/ /\ ExchangeState.st = "Pending"
          /\ ExchangeState'.st = "Failed"
          /\ \/ sendFailedAt' = ExchangeState.attempt /\ sendFailedAt = -1
             \/ timeoutFailedAt' = ExchangeState.attempt /\ timeoutFailedAt = -1
             \/ /\ waits' = waits + 1
                /\ LastWait'.res \in {"IoError", "DeserializationError"}]_vars

\* Pending(1) ended in Failed on a corrupt datagram
C10_Witness ==
    /\ pc = "done"
    /\ attempt = 1
    /\ result = "DeserializationError"
    /\ Len(waitLog) = 2
    /\ waitLog[1].res = "false"
    /\ ~IsTimeout(waitLog[1])

\* every permitted attempt was made and none of the waits saw the ACK
RetriesExceeded ==
    /\ max_retries >= 1
    /\ sends = max_retries
    /\ waits = max_retries
    /\ \A i \in 1..Len(waitLog) : waitLog[i].res = "false"

\* C11 as stated: send_critical_alert returns the value true when an ACK was
\* received and the value false (Ok(false), not an error) when the maximum number
\* of retries was exceeded.
C11_AsStated ==
    pc = "done" =>
        /\ (waits > 0 /\ LastWait.res = "true") => result = "true"
        /\ RetriesExceeded => result = "false"

\* C12: SensorPayload::new returns InvalidDeviceId whenever the device id is 0
\* (whatever the battery level), InvalidBatteryLevel whenever the device id is not
\* 0 and the battery level exceeds 100, and otherwise a value whose every field is
\* the corresponding argument; every value returned has a non-zero device id and a
\* battery level in 0..100.
C12_NewValidates ==
    ReturnedFrom("SensorPayload::new") =>
        LET a == call.args
            r == ret.val
        IN  /\ a.device_unique_id = 0 => r.res = "InvalidDeviceId"
            /\ (a.device_unique_id # 0 /\ a.battery_level_percent > 100)
                   => r.res = "InvalidBatteryLevel"
            /\ (a.device_unique_id # 0 /\ a.battery_level_percent <= 100)
                   => /\ r.res = "Ok"
                      /\ r.value.device_unique_id = a.device_unique_id
                      /\ r.value.timestamp_ms_utc = a.timestamp_ms_utc
                      /\ r.value.sensor_model_version = a.sensor_model_version
                      /\ r.value.battery_level_percent = a.battery_level_percent
                      /\ r.value.time_to_live_ms = a.time_to_live_ms
                      /\ r.value.raw_data_hash_crc = a.raw_data_hash_crc
                      /\ r.value.anomaly_ai_vector = a.anomaly_ai_vector
            /\ r.res = "Ok" => /\ r.value.device_unique_id # 0
                               /\ r.value.battery_level_percent \in 0..100

\* a call with device id 0 and a battery level above 100 has returned
C12_Witness ==
    /\ ReturnedFrom("SensorPayload::new")
    /\ call.args.device_unique_id = 0
    /\ call.args.battery_level_percent > 100
    /\ ret.val.res = "InvalidDeviceId"

\* C13: DLTTransactionRecord::new returns InvalidGatewayId whenever the gateway id
\* is 0, a SerializationError whenever the gateway id is not 0 and the consensus
\* mode is neither 0 nor 1, and otherwise a record whose fields are the arguments.
C13_NewRecordValidates ==
    ReturnedFrom("DLTTransactionRecord::new") =>
        LET a == call.args
            r == ret.val
        IN  /\ a.gateway_unique_id = 0 => r.res = "InvalidGatewayId"
            /\ (a.gateway_unique_id # 0 /\ a.consensus_mode_used \notin {0, 1})
                   => r.res = "SerializationError"
            /\ (a.gateway_unique_id # 0 /\ a.consensus_mode_used \in {0, 1})
                   => /\ r.res = "Ok"
                      /\ r.value.gateway_unique_id = a.gateway_unique_id
                      /\ r.value.final_anomaly_score = a.final_anomaly_score
                      /\ r.value.is_critical_alert = a.is_critical_alert
                      /\ r.value.consensus_mode_used = a.consensus_mode_used
                      /\ r.value.source_payload_hash = a.source_payload_hash
                      /\ r.value.gateway_signature = a.gateway_signature

\* a call with a non-zero gateway id and consensus mode 2 has returned
C13_Witness ==
    /\ ReturnedFrom("DLTTransactionRecord::new")
    /\ call.args.gateway_unique_id # 0
    /\ call.args.consensus_mode_used = 2
    /\ ret.val.res = "SerializationError"

\* now > min(T + L, 2^64 - 1), in exact arithmetic
ExpiredAt(T, L, now) == BigLess(BigMin(BigAdd(T, Nat2Big(L)), U64_MAX), now)

\* recv is a datagram that passes the length and the structure check
Decoded(recv) ==
    /\ recv.kind = "data"
    /\ recv.dgram.len >= size_of_SensorPayload
    /\ recv.dgram.wellformed

\* the boundary cases of the expiry rule for timestamp T, ttl L, time now and the
\* answer expired
TtlBoundary(T, L, now, expired) ==
    /\ expired <=> ExpiredAt(T, L, now)
    /\ now = BigAdd(T, Nat2Big(L)) => ~expired
    /\ now = BigAdd(BigAdd(T, Nat2Big(L)), <<1>>) => expired
    /\ ~FitsU64(BigAdd(T, Nat2Big(L))) => ~expired

\* C14: SensorPayload::is_expired and the TTL check of receive_with_ttl_check
\* report expiry exactly when now > min(T + L, 2^64 - 1): now = T + L is not
\* expired, now = T + L + 1 is, and when T + L exceeds the largest u64 the sum
\* saturates and the payload is never expired.
C14_TtlBoundary ==
    /\ ReturnedFrom("is_expired") =>
           TtlBoundary(call.self.timestamp_ms_utc, call.self.time_to_live_ms,
                       call.now, ret.val)
    /\ (ReturnedFrom("receive_with_ttl_check") /\ Decoded(call.recv)) =>
           /\ ret.val.res \in {"Ok", "PayloadExpired"}
           /\ TtlBoundary(call.recv.dgram.view.timestamp_ms_utc,
                          call.recv.dgram.view.time_to_live_ms,
                          call.now, ret.val.res = "PayloadExpired")

\* is_expired has answered for a payload whose timestamp + ttl exceeds 2^64 - 1
C14_Witness ==
    /\ ReturnedFrom("is_expired")
    /\ ~FitsU64(BigAdd(call.self.timestamp_ms_utc, Nat2Big(call.self.time_to_live_ms)))
    /\ BigLess(Nat2Big(call.self.time_to_live_ms), call.now)
    /\ ret.val = FALSE

\* the first check of receive_validated that recv fails at time now
FirstFailure(recv, now) ==
    IF recv.kind # "data" THEN "IoError"
    ELSE IF recv.dgram.len < size_of_SensorPayload THEN "InvalidPacketLength"
    ELSE IF ~recv.dgram.wellformed THEN "DeserializationError"
    ELSE IF ExpiredAt(recv.dgram.view.timestamp_ms_utc,
                      recv.dgram.view.time_to_live_ms, now) THEN "PayloadExpired"
    ELSE IF recv.dgram.view.device_unique_id = 0 THEN "InvalidDeviceId"
    ELSE IF recv.dgram.view.battery_level_percent > 100 THEN "InvalidBatteryLevel"
    ELSE "Ok"

\* C15: receive_validated checks length, structure, TTL, device id, battery in
\* this order and returns the error of the first check that fails; a datagram
\* received at timestamp + ttl + 1 gives PayloadExpired even when its device id
\* is 0; a view is returned only when all checks pass.
C15_ValidationOrder ==
    ReturnedFrom("receive_validated") =>
        /\ ret.val.res = FirstFailure(call.recv, call.now)
        /\ (/\ Decoded(call.recv)
            /\ call.now = BigAdd(BigAdd(call.recv.dgram.view.timestamp_ms_utc,
                                        Nat2Big(call.recv.dgram.view.time_to_live_ms)),
                                 <<1>>))
               => ret.val.res = "PayloadExpired"
        /\ IF ret.val.res = "Ok"
           THEN ret.val.view = call.recv.dgram.view
           ELSE ret.val.view = NoSensorPayload

\* receive_validated rejected as expired a datagram with device id 0 and battery 101
C15_Witness ==
    /\ ReturnedFrom("receive_validated")
    /\ Decoded(call.recv)
    /\ call.recv.dgram.view.device_unique_id = 0
    /\ call.recv.dgram.view.battery_level_percent > 100
    /\ ret.val.res = "PayloadExpired"

\* C16 as stated: the TTL layer follows the receiver configuration: with the TTL
\* check disabled an expired payload is accepted by receive_validated, with it
\* enabled the same payload is rejected with PayloadExpired.
C16_AsStated ==
    (/\ ReturnedFrom("receive_validated")
     /\ Decoded(call.recv)
     /\ call.recv.dgram.view.device_unique_id # 0
     /\ call.recv.dgram.view.battery_level_percent <= 100
     /\ ExpiredAt(call.recv.dgram.view.timestamp_ms_utc,
                  call.recv.dgram.view.time_to_live_ms, call.now))
        => IF is_ttl_check_enabled(config)
           THEN ret.val.res = "PayloadExpired"
           ELSE ret.val.res = "Ok"

\* C17: Receiver::receive returns InvalidPacketLength{expected = the size of a
\* SensorPayload, received = bytes_received} whenever fewer bytes than that
\* arrived, without running the structure check and without reading a field.
C17_ShortDatagram ==
    (/\ ReturnedFrom("receive")
     /\ call.recv.kind = "data"
     /\ call.recv.dgram.len < size_of_SensorPayload)
        => /\ ret.val.res = "InvalidPacketLength"
           /\ ret.val.expected = size_of_SensorPayload
           /\ ret.val.received = call.recv.dgram.len
           /\ ~ret.val.checked
           /\ ret.val.reads = {}
           /\ ret.val.view = NoSensorPayload

\* receive has returned for a datagram one byte shorter than a SensorPayload
C17_Witness ==
    /\ ReturnedFrom("receive")
    /\ call.recv.kind = "data"
    /\ call.recv.dgram.len = size_of_SensorPayload - 1
    /\ ret.val.res = "InvalidPacketLength"

\* the receive of the operation that has returned timed out
TimedOutIn(op) ==
    /\ ReturnedFrom(op)
    /\ IF op = "receive_batch" THEN ret.val.last \in {"WouldBlock", "TimedOut"}
       ELSE IsTimeout(call.recv)

ReceiverOps == {"receive", "receive_with_ttl_check", "receive_validated", "receive_batch"}

\* C18 as stated: a receive that times out is reported as a normal outcome and not
\* as an error, in wait_for_ack and in every receive operation of the Receiver.
C18_AsStated ==
    /\ TimedOutIn("wait_for_ack") => ret.val = "false"
    /\ \A op \in ReceiverOps : TimedOutIn(op) => ret.val.res \notin CyDnAError

\* C18 amended: a receive that times out is reported as the value false by
\* wait_for_ack and as the error IoError by the receive operations of the Receiver.
C18_TimeoutReporting ==
    /\ TimedOutIn("wait_for_ack") => ret.val = "false"
    /\ \A op \in ReceiverOps : TimedOutIn(op) => ret.val.res = "IoError"

\* receive_batch has returned because its second receive timed out
C18_Witness ==
    /\ TimedOutIn("receive_batch")
    /\ ret.val.receives = 2
    /\ ret.val.res = "IoError"

\* the number of bytes the Transmitter call that has returned had to send
TxLength ==
    IF call.op = "send_raw" THEN call.len ELSE serialize_payload(call.payload, "ok").len

\* C19: one call of Transmitter::send or send_raw hands no datagram to the socket
\* when the byte length exceeds 1024 (and returns BufferTooSmall{required = length,
\* available = 1024}) and exactly one datagram otherwise, also at length 1024 and
\* also when that send fails with IoError (for send: once the payload is encoded).
C19_OneSendPerCall ==
    ((ReturnedFrom("send") /\ call.enc = "ok") \/ ReturnedFrom("send_raw")) =>
        IF TxLength > 1024
        THEN /\ wire = <<>>
             /\ ret.val.res = "BufferTooSmall"
             /\ ret.val.required = TxLength
             /\ ret.val.available = 1024
        ELSE /\ wire = <<TxLength>>
             /\ ret.val.res = (IF call.send_to = "ok" THEN "Ok" ELSE "IoError")
             /\ ret.val.res = "Ok" => ret.val.written = TxLength

\* send_raw was called with exactly 1024 bytes and the socket failed
C19_Witness ==
    /\ ReturnedFrom("send_raw")
    /\ call.len = 1024
    /\ ret.val.res = "IoError"
    /\ Len(wire) = 1

\* C20: every successfully encoded SensorPayload is non-empty and at most 1024
\* bytes long, and Transmitter::send never returns BufferTooSmall for one.
C20_EncodedSizeBound ==
    /\ (ReturnedFrom("serialize_payload") /\ ret.val.ok) =>
           (ret.val.len > 0 /\ ret.val.len <= 1024)
    /\ ReturnedFrom("send") => ret.val.res # "BufferTooSmall"

\* a payload with the largest sampled field values was encoded and sent
C20_Witness ==
    /\ ReturnedFrom("send")
    /\ call.payload.timestamp_ms_utc = U64_MAX
    /\ call.payload.time_to_live_ms = 2^16 - 1
    /\ ret.val.res = "Ok"
    /\ wire # <<>>

\* C21: encoding is deterministic and encoders do not affect each other: every
\* byte string that a serialize_payload call has returned, on whichever thread
\* and whatever the other threads were doing meanwhile, is the archive of the
\* payload it was given, so the results for one payload are byte-identical.
C21_EncodingDeterministic ==
    /\ \A e \in Encoders :
          encoders[e].out # <<>> =>
              encoders[e].out = serialize_payload(encoders[e].encoded, "ok").bytes
    /\ \A e1, e2 \in Encoders :
          (/\ encoders[e1].out # <<>>
           /\ encoders[e2].out # <<>>
           /\ encoders[e1].encoded = encoders[e2].encoded) =>
              encoders[e1].out = encoders[e2].out

\* two threads have each returned an encoding of the same payload and are both
\* inside a further call, one resolving fields and one about to copy its buffer
C21_Witness ==
    /\ encoders[1].out # <<>>
    /\ encoders[2].out # <<>>
    /\ encoders[1].encoded = encoders[2].encoded
    /\ encoders[1].pc = "resolve"
    /\ encoders[1].next > 2
    /\ encoders[2].pc = "to_vec"

\* C22: for every SensorPayload that SensorPayload::new built, structural
\* validation of the bytes serialize_payload returned succeeds and every field
\* of the archived view, the 32 vector elements included, equals the original.
C22_RoundTrip ==
    (ReturnedFrom("check_archived_root") /\ call.bytes = call.encoded) =>
        /\ call.encoded = serialize_payload(call.payload, "ok").bytes
        /\ ret.val.ok
        /\ ret.val.view = call.payload

\* a payload with the largest timestamp and time to live and the boundary f32
\* values was encoded and decoded
C22_Witness ==
    /\ ReturnedFrom("check_archived_root")
    /\ call.bytes = call.encoded
    /\ call.payload.timestamp_ms_utc = U64_MAX
    /\ call.payload.time_to_live_ms = 2^16 - 1
    /\ call.payload.anomaly_ai_vector[2] = BoundaryBits[3]
    /\ ret.val.ok

\* index of the first element for which the serializer answers "err", 0 if none
FirstFault(encs) ==
    IF \E i \in 1..Len(encs) : encs[i] = "err"
    THEN CHOOSE i \in 1..Len(encs) :
            encs[i] = "err" /\ \A j \in 1..(i - 1) : encs[j] = "ok"
    ELSE 0

\* C23: serialize_batch encodes in input order: on success the result has one
\* entry per element and entry i is the encoding of element i; when an element
\* fails to encode, the error of the first such element is returned, no later
\* element is encoded and no result sequence is returned.
C23_BatchInOrder ==
    ReturnedFrom("serialize_batch") =>
        IF FirstFault(call.encs) = 0
        THEN /\ ret.val.res = "Ok"
             /\ Len(ret.val.batch) = Len(call.payloads)
             /\ \A i \in 1..Len(call.payloads) :
                   ret.val.batch[i] = serialize_payload(call.payloads[i], "ok").bytes
        ELSE /\ ret.val.res = "SerializationError"
             /\ ret.val.batch = <<>>
             /\ ret.val.failed = FirstFault(call.encs)
             /\ ret.val.calls = FirstFault(call.encs)

\* a batch of two different payloads whose second element failed to encode
C23_Witness ==
    /\ ReturnedFrom("serialize_batch")
    /\ Len(call.payloads) = 2
    /\ call.payloads[1] # call.payloads[2]
    /\ call.encs = <<"ok", "err">>
    /\ ret.val.res = "SerializationError"

\* the smaller of two numbers
Min(a, b) == IF a <= b THEN a ELSE b

\* C24 as stated: receive_batch performs exactly count receives and returns
\* count byte sequences, entry i holding exactly the bytes of the i-th datagram.
C24_AsStated ==
    ReturnedFrom("receive_batch") =>
        /\ ret.val.receives = call.count
        /\ ret.val.res = "Ok"
        /\ Len(ret.val.batch) = call.count
        /\ \A i \in 1..call.count :
              ret.val.batch[i] = to_vec(ret.val.arrived[i])

\* C24 (amended): receive_batch stops at the first recv_from that fails and
\* returns IoError without the datagrams received before it; when it returns Ok
\* it has made exactly count receives and returns count entries in arrival
\* order, entry i holding the first min(length, buffer_size) bytes of the i-th
\* datagram, whole and undecoded when the datagram fits, whether or not the
\* bytes are a valid payload.
C24_BatchReceive ==
    /\ (call.op = "receive_batch" /\ ~ret.done) =>
           /\ ret.val.receives < call.count
           /\ Len(ret.val.batch) = ret.val.receives
    /\ ReturnedFrom("receive_batch") =>
          IF ret.val.res = "Ok"
          THEN /\ ret.val.receives = call.count
               /\ Len(ret.val.batch) = call.count
               /\ Len(ret.val.arrived) = call.count
               /\ \A i \in 1..call.count :
                     /\ ret.val.batch[i].len =
                            Min(ret.val.arrived[i].len, call.buffer_size)
                     /\ ret.val.arrived[i].len <= call.buffer_size =>
                            ret.val.batch[i] = to_vec(ret.val.arrived[i])
          ELSE /\ ret.val.res = "IoError"
               /\ ret.val.batch = <<>>
               /\ ret.val.last # "data"
               /\ ret.val.receives = Len(ret.val.arrived) + 1
               /\ ret.val.receives <= call.count

\* a batch of two was returned whose first entry is a datagram that is no valid
\* payload and whose second entry is a datagram cut to the buffer
C24_Witness ==
    /\ ReturnedFrom("receive_batch")
    /\ call.count = 2
    /\ ret.val.res = "Ok"
    /\ ~ret.val.batch[1].wellformed
    /\ ret.val.batch[1].len = size_of_SensorPayload - 1
    /\ ret.val.arrived[2].len > call.buffer_size
    /\ ret.val.batch[2].len = call.buffer_size

\* calculate_backoff_ms(a, base, base * 10) with the product taken modulo 2^64,
\* for the attempts and base timeouts of the model
ExpectedBackoffs ==
    {[attempt |-> a, base_ms |-> b,
      ms |-> calculate_backoff_ms(pow_exponent(a), b, WrapU64(BigMul(b, Nat2Big(10))))] :
        a \in RetryAttempts, b \in ScheduleBases}

ExpectedBackoff(a, b) ==
    (CHOOSE e \in ExpectedBackoffs : e.attempt = a /\ e.base_ms = b).ms

\* instance i has returned from one more schedule_next_retry in this step
Scheduled(i) == scheduled'[i] = BigAdd(scheduled[i], <<1>>)

\* what a returned schedule_next_retry on instance i does to next_retry,
\* last_sent, the two fields it does not assign and the other instances
ScheduleFrame(i) ==
    /\ call'.op = "schedule_next_retry"
    /\ call'.self = i
    /\ call'.now1 = clock
    /\ rtx'[i].next_retry =
           instant_plus(clock, ExpectedBackoff(rtx[i].attempt, call'.base_ms))
    /\ rtx'[i].last_sent = clock'
    /\ clock' >= clock
    /\ rtx'[i].device_id = rtx[i].device_id
    /\ rtx'[i].payload_timestamp_ms = rtx[i].payload_timestamp_ms
    /\ \A j \in Instances \ {i} : rtx'[j] = rtx[j] /\ scheduled'[j] = scheduled[j]

\* C27 as stated: a schedule_next_retry on a state with attempt a sets
\* next_retry to the current time plus the backoff of attempt a, attempt to
\* a + 1 and last_sent to the current time, and changes nothing else.
C27_AsStated ==
    [][\A i \in Instances :
          Scheduled(i) =>
              /\ ScheduleFrame(i)
              /\ rtx'[i].attempt = BigAdd(rtx[i].attempt, <<1>>)]_vars

\* C27: a schedule_next_retry(base_timeout_ms) that returns on a state with
\* attempt a sets next_retry to the clock reading plus calculate_backoff_ms(a,
\* base_timeout_ms, base_timeout_ms * 10) (a is the attempt before the
\* increment), attempt to a + 1 modulo 2^32 and last_sent to the current time,
\* leaves device_id and payload_timestamp_ms as they were and changes no other
\* instance.
C27_ScheduleEffect ==
    [][\A i \in Instances :
          Scheduled(i) =>
              /\ ScheduleFrame(i)
              /\ rtx'[i].attempt = WrapU32(BigAdd(rtx[i].attempt, <<1>>))]_vars

\* the 2^32-th schedule_next_retry of the first instance, with base timeout 1,
\* has returned at clock reading 1 and left attempt 0, while the other
\* instance was scheduled once
C27_Witness ==
    /\ ReturnedFrom("schedule_next_retry")
    /\ ret.val = "Ok"
    /\ call.self = 1
    /\ call.base_ms = Nat2Big(1)
    /\ call.now1 = 1
    /\ scheduled[1] = BigAdd(U32_MAX, <<1>>)
    /\ rtx[1].attempt = <<>>
    /\ rtx[1].next_retry = 11
    /\ rtx[2].attempt = Nat2Big(1)

\* C28 as stated: a state is exhausted exactly when three or more
\* schedule_next_retry calls have returned on it since it was created, so it
\* becomes exhausted with the third call and stays exhausted under every
\* further call.
C28_AsStated ==
    \A i \in Instances :
        is_exhausted(rtx[i]) <=> BigLeq(Nat2Big(3), scheduled[i])

\* C28: is_exhausted is true exactly when attempt >= 3, attempt being the
\* number of schedule_next_retry calls that have returned on the state since
\* it was created, modulo 2^32: a new state is not exhausted, it becomes
\* exhausted with the third call, and a call on an exhausted state whose
\* attempt is below 2^32 - 1 leaves it exhausted.
C28_ExhaustedAfterThree ==
    /\ [](\A i \in Instances :
            /\ rtx[i].attempt = WrapU32(scheduled[i])
            /\ is_exhausted(rtx[i]) <=> BigLeq(Nat2Big(3), WrapU32(scheduled[i])))
    /\ [](ReturnedFrom("new") =>
            (scheduled[call.self] = <<>> => ~is_exhausted(rtx[call.self])))
    /\ [][\A i \in Instances :
            (Scheduled(i) /\ is_exhausted(rtx[i]) /\ rtx[i].attempt # U32_MAX) =>
                is_exhausted(rtx'[i])]_vars

\* the first instance is still exhausted after 2^32 - 1 calls, the second has
\* become exhausted with its third
C28_Witness ==
    /\ scheduled[1] = U32_MAX
    /\ is_exhausted(rtx[1])
    /\ scheduled[2] = Nat2Big(3)
    /\ is_exhausted(rtx[2])

\* times at which is_ready_for_retry can be asked
ClockReadings == 0..(MaxClock + 1)

\* C29: a new state has attempt 0 and is ready at once; after a
\* schedule_next_retry that returns, the state is not ready at any time before
\* the clock reading of the call plus the backoff and is ready at every time
\* from then on, which with a base timeout that is positive and whose ceiling
\* does not overflow is later than the call; a state that is ready stays ready
\* as time passes until its next schedule_next_retry or new.
C29_ReadyAfterBackoff ==
    /\ [](ReturnedFrom("new") =>
            (scheduled[call.self] = <<>> =>
                /\ rtx[call.self].attempt = <<>>
                /\ is_ready_for_retry(rtx[call.self], clock)))
    /\ [][\A i \in Instances :
            /\ Scheduled(i) =>
                  /\ \A t \in ClockReadings :
                        is_ready_for_retry(rtx'[i], t) <=>
                            t >= instant_plus(clock,
                                     ExpectedBackoff(rtx[i].attempt, call'.base_ms))
                  /\ (call'.base_ms # <<>>
                        /\ FitsU64(BigMul(call'.base_ms, Nat2Big(10)))) =>
                         ~is_ready_for_retry(rtx'[i], clock)
            /\ (rtx'[i] = rtx[i] /\ is_ready_for_retry(rtx[i], clock)) =>
                  is_ready_for_retry(rtx'[i], clock')]_vars

\* a state scheduled at clock reading 0 for its second retry with base timeout
\* 1 is ready at clock reading 2, when its backoff of 2 ms has elapsed
C29_Witness ==
    /\ ReturnedFrom("schedule_next_retry")
    /\ call.base_ms = Nat2Big(1)
    /\ call.now1 = 0
    /\ rtx[call.self].attempt = Nat2Big(2)
    /\ rtx[call.self].next_retry = 2
    /\ clock = 2
    /\ is_ready_for_retry(rtx[call.self], clock)

\* the RetransmissionState for the payload of the exchange after n calls of
\* schedule_next_retry(base_ms), all at clock reading 0, in a build without
\* overflow checks
RECURSIVE AfterSchedules(_, _)
AfterSchedules(n, base_ms) ==
    IF n = 0
    THEN RetransmissionState_new(payload.device_unique_id, payload.timestamp_ms_utc, 0)
    ELSE schedule_next_retry(AfterSchedules(n - 1, base_ms), base_ms, 0, 0, FALSE).state

\* the delay that the call of schedule_next_retry for attempt k schedules
ScheduledDelay(k, base_ms) == AfterSchedules(k + 1, base_ms).next_retry

\* the number of transmissions, each followed by a schedule_next_retry, after
\* which is_exhausted is true for the first time
TransmissionsAllowed ==
    CHOOSE n \in 0..MaxSchedules :
        /\ is_exhausted(AfterSchedules(n, Nat2Big(1)))
        /\ \A m \in 0..(n - 1) : ~is_exhausted(AfterSchedules(m, Nat2Big(1)))

\* C30 as stated: with max_retries = 3 and no datagram arriving, the loop goes
\* through the three delays of the RetransmissionState policy for every base
\* timeout, makes as many transmissions as the policy allows and reports
\* exhaustion.
C30_AsStated ==
    (/\ max_retries = 3
     /\ pc = "done"
     /\ result # "Panic"
     /\ sendFailedAt = -1
     /\ EveryWaitTimedOut
     /\ timeoutFailedAt # -1 => base_timeout_ms = <<>>)
        => (/\ waits = 3
            /\ sends = TransmissionsAllowed
            /\ result = "MaxRetriesExceeded")

\* C30 (amended): with max_retries = 3, every read timeout that
\* send_critical_alert sets for attempt k is the delay that the call of
\* schedule_next_retry for attempt k schedules on a new RetransmissionState
\* with the same base timeout, the loop makes no more transmissions than the
\* state allows before is_exhausted, and it reports MaxRetriesExceeded after
\* exactly that many transmissions and waits; the loop goes through all three
\* delays when no datagram arrives, every send succeeds and every read timeout
\* is set, which needs delays that are not zero.
C30_SameBackoffPolicy ==
    max_retries = 3 =>
        /\ pc = "wait" =>
              /\ read_timeout.some
              /\ instant_plus(0, read_timeout.ms) = ScheduledDelay(attempt, base_timeout_ms)
              /\ ScheduledDelay(attempt, base_timeout_ms) > 0
              /\ ~is_exhausted(AfterSchedules(attempt, base_timeout_ms))
        /\ sends <= TransmissionsAllowed
        /\ (pc = "done" /\ result = "MaxRetriesExceeded") =>
              /\ sends = TransmissionsAllowed
              /\ waits = TransmissionsAllowed
              /\ is_exhausted(AfterSchedules(sends, base_timeout_ms))
        /\ (pc = "done" /\ sendFailedAt = -1 /\ timeoutFailedAt = -1 /\ EveryWaitTimedOut) =>
              (waits = 3 /\ result = "MaxRetriesExceeded")

\* the loop waits in its last attempt with the third delay of the policy
C30_Witness ==
    /\ max_retries = 3
    /\ pc = "wait"
    /\ attempt = 2
    /\ base_timeout_ms = Nat2Big(100)
    /\ read_timeout.ms = Nat2Big(400)
    /\ ScheduledDelay(2, base_timeout_ms) = 400
    /\ TransmissionsAllowed = 3

\* each call has a socket of its own
IndependentSockets ==
    \A e \in Exchanges : bound[e] # 0 /\ \A f \in Exchanges \ {e} : bound[f] # bound[e]

\* both calls use one socket
SharedSocket ==
    \A e \in Exchanges : bound[e] # 0 /\ \A f \in Exchanges : bound[f] = bound[e]

\* call e has taken a step
Stepped(e) == exchanges'[e].pc # exchanges[e].pc

\* what one wait of call e makes of its state x when its own socket has the
\* datagrams of queue
WaitOn(e, x, queue) ==
    LET recv == IF queue = <<>> THEN RecvErr("WouldBlock") ELSE RecvData(Head(queue))
        r == wait_for_ack(recv, ExchangePayload(e).device_unique_id,
                          ExchangePayload(e).timestamp_ms_utc)
        next == after_wait(r, x.attempt, x.max_retries)
    IN  [x EXCEPT !.pc = next.pc, !.result = next.result, !.attempt = next.attempt,
                  !.expected = Append(@, [device_unique_id |->
                                             ExchangePayload(e).device_unique_id,
                                          original_timestamp_ms |->
                                             ExchangePayload(e).timestamp_ms_utc])]

HeadForOther(e) ==
    /\ sockets[bound[e]].queue # <<>>
    /\ Head(sockets[bound[e]].queue) # ExchangeAck(e)

\* C26: when two calls share one socket, a wait of one call that finds the ACK
\* addressed to the other takes it off the socket, returns no match and uses
\* up an attempt of its call, and the ACK is not queued again; an ACK is read
\* by the wrong call only on a shared socket and only after the gateway sent
\* it.
C26_SharedSocketSteals ==
    /\ [](\A e \in Exchanges : stolen[e] => (SharedSocket /\ acked[e]))
    /\ [][\A e \in Exchanges :
            (SharedSocket /\ Stepped(e) /\ exchanges[e].pc = "wait" /\ HeadForOther(e)) =>
               /\ sockets'[bound[e]].queue = Tail(sockets[bound[e]].queue)
               /\ exchanges'[e].result # "true"
               /\ \/ exchanges'[e].pc = "send"
                        /\ exchanges'[e].attempt = exchanges[e].attempt + 1
                  \/ exchanges'[e].pc = "done"
                        /\ exchanges'[e].result = "MaxRetriesExceeded"
               /\ \E f \in Exchanges \ {e} : stolen'[f]]_vars

\* the gateway sent the ACK for the first call, the second call read it, and
\* the first call ended with MaxRetriesExceeded, nothing being left on the
\* socket
C26_Witness ==
    /\ SharedSocket
    /\ acked[1]
    /\ stolen[1]
    /\ ~acked[2]
    /\ exchanges[1].pc = "done"
    /\ exchanges[1].result = "MaxRetriesExceeded"
    /\ sockets[bound[1]].queue = <<>>

\* C31: AckPacket::ack(d, t) is an ACK and AckPacket::nack(d, t) is not, both
\* carry d and t, the 16 bytes that send_ack and send_nack give to the socket
\* decode to the packet, and a peer's wait_for_ack (d, t) returns true on the
\* datagram of send_ack(d, t) and false on the datagram of send_nack(d, t).
C31_AckAndNack ==
    /\ (ReturnedFrom("send_ack") \/ ReturnedFrom("send_nack")) =>
          /\ is_ack(call.packet) <=> call.op = "send_ack"
          /\ call.packet.device_unique_id = call.device_unique_id
          /\ call.packet.original_timestamp_ms = call.original_timestamp_ms
          /\ ret.val.res = "Ok" =>
                /\ Len(ret.val.sent) = 1
                /\ Len(ret.val.sent[1]) = ACK_PACKET_SIZE
    /\ ReturnedFrom("wait_for_ack") =>
          /\ call.recv.dgram.len = ACK_PACKET_SIZE
          /\ call.recv.dgram.wellformed
          /\ call.recv.dgram.packet = call.packet
          /\ (/\ call.device_unique_id = call.packet.device_unique_id
              /\ call.original_timestamp_ms = call.packet.original_timestamp_ms) =>
                ret.val = IF call.sent_by = "send_ack" THEN "true" ELSE "false"

\* the peer that expects (7, 1000) has returned false on the datagram of
\* send_nack(7, 1000)
C31_Witness ==
    /\ ReturnedFrom("wait_for_ack")
    /\ call.sent_by = "send_nack"
    /\ call.packet = AckPacket_nack(7, Nat2Big(1000))
    /\ call.device_unique_id = 7
    /\ call.original_timestamp_ms = Nat2Big(1000)
    /\ ret.val = "false"

\* base, 2 * base, 4 * base, 8 * base and 10 * base from attempt 4 on
TimeoutOfAttempt(k, base_ms) ==
    BigMul(base_ms, Nat2Big(IF k < 4 THEN 2^k ELSE 10))

ExchangeDatagrams ==
    {[exchange |-> e, bytes |-> to_bytes(ExchangePayload(e))] : e \in Exchanges}

ExchangeDatagram(e) == (CHOOSE d \in ExchangeDatagrams : d.exchange = e).bytes

\* C33: every send of one send_critical_alert call gives send_to the same
\* bytes, the archive of the caller's payload, and the same destination, and
\* every wait_for_ack of the call is given the device id and the timestamp of
\* that payload.
C33_SamePayloadEveryAttempt ==
    \A e \in Exchanges :
        LET x == exchanges[e] IN
        /\ Len(x.sent) = x.sends
        /\ Len(x.expected) <= Len(x.sent)
        /\ \A i \in 1..Len(x.sent) :
              /\ x.sent[i] = x.sent[1]
              /\ x.sent[i].bytes = ExchangeDatagram(e)
              /\ x.sent[i].to = ExchangeGateway(e)
        /\ \A i \in 1..Len(x.expected) :
              x.expected[i] =
                 [device_unique_id |-> ExchangePayload(e).device_unique_id,
                  original_timestamp_ms |-> ExchangePayload(e).timestamp_ms_utc]

\* a call has sent its payload three times and waited twice
C33_Witness ==
    /\ exchanges[1].sends = 3
    /\ Len(exchanges[1].sent) = 3
    /\ exchanges[1].sent[3] = exchanges[1].sent[1]
    /\ Len(exchanges[1].expected) = 2
    /\ exchanges[1].expected[2] = exchanges[1].expected[1]
    /\ exchanges[1].pc = "set_timeout"

\* C34: a call with max_retries = 0 does not enter the loop body: it sends
\* nothing, sets no timeout, waits for nothing and returns MaxRetriesExceeded,
\* and `max_retries - 1` is evaluated only after a wait, that is only in a call
\* whose max_retries is at least 1.
C34_ZeroRetries ==
    /\ (pc # "idle" /\ max_retries = 0) =>
          /\ pc = "done"
          /\ result = "MaxRetriesExceeded"
          /\ sends = 0
          /\ waits = 0
          /\ waitLog = <<>>
          /\ ~read_timeout.some
          /\ sendFailedAt = -1
          /\ timeoutFailedAt = -1
    /\ pc = "wait" => max_retries - 1 >= 0

\* the call with max_retries = 0 has returned
C34_Witness ==
    /\ pc = "done"
    /\ max_retries = 0
    /\ result = "MaxRetriesExceeded"
    /\ sends = 0
    /\ waits = 0

\* a datagram of at least 16 bytes that fails the structural validation
Malformed(recv) ==
    /\ recv.kind = "data"
    /\ recv.dgram.len >= ACK_PACKET_SIZE
    /\ ~recv.dgram.wellformed

\* C35: a wait that receives a datagram of at least 16 bytes that fails the
\* structural validation ends the call at once with DeserializationError: no
\* further send, timeout or wait follows, whatever attempts remain, and the
\* call returns DeserializationError only in this way.
C35_MalformedEndsCall ==
    /\ [](result = "DeserializationError" =>
             /\ pc = "done"
             /\ waits > 0
             /\ Malformed(lastRecv)
             /\ LastWait.res = "DeserializationError"
             /\ sends = attempt + 1
             /\ waits = attempt + 1)
    /\ [][(waits' = waits + 1 /\ Malformed(lastRecv')) =>
             /\ pc' = "done"
             /\ result' = "DeserializationError"
             /\ attempt' = attempt
             /\ sends' = sends]_vars
    /\ [][result = "DeserializationError" =>
             UNCHANGED <<pc, result, attempt, sends, waits, read_timeout>>]_vars

\* the first of three attempts received a malformed datagram and the call has
\* returned with two attempts unused, while a payload is on its way to the gateway
C35_Witness ==
    /\ pc = "done"
    /\ result = "DeserializationError"
    /\ max_retries = 3
    /\ attempt = 0
    /\ sends = 1
    /\ Malformed(lastRecv)
    /\ toGateway > 0

\* a datagram that wait_for_ack answers with Ok(false): shorter than 16 bytes,
\* or a control packet that is a NACK or names another device or timestamp
Rejected(recv) ==
    /\ recv.kind = "data"
    /\ \/ recv.dgram.len < ACK_PACKET_SIZE
       \/ /\ recv.dgram.wellformed
          /\ \/ recv.dgram.packet.device_unique_id # payload.device_unique_id
             \/ recv.dgram.packet.original_timestamp_ms # payload.timestamp_ms_utc
             \/ recv.dgram.packet.ack_type # 0

\* C36: a wait is one recv_from, and one that receives a rejected datagram
\* returns with it and uses up the attempt: the next step of the call is the
\* send of the next attempt, with no second receive for the rest of the read
\* timeout, or the return of MaxRetriesExceeded after the last attempt.
C36_RejectedDatagramUsesAttempt ==
    /\ [](/\ Len(waitLog) = waits
          /\ pc = "send" => (waits = attempt /\ sends = attempt)
          /\ pc = "wait" => (waits = attempt /\ sends = attempt + 1))
    /\ [][(waits' = waits + 1 /\ Rejected(lastRecv')) =>
             /\ LastWait'.kind = "data"
             /\ LastWait'.res = "false"
             /\ sends' = sends
             /\ read_timeout' = read_timeout
             /\ IF attempt = max_retries - 1
                THEN pc' = "done" /\ result' = "MaxRetriesExceeded" /\ attempt' = attempt
                ELSE pc' = "send" /\ result' = "none" /\ attempt' = attempt + 1]_vars

\* three attempts each received a rejected datagram, a NACK the last, and the
\* call has returned MaxRetriesExceeded without a wait that timed out
C36_Witness ==
    /\ pc = "done"
    /\ result = "MaxRetriesExceeded"
    /\ max_retries = 3
    /\ sends = 3
    /\ waits = 3
    /\ \A i \in 1..Len(waitLog) : waitLog[i].kind = "data" /\ waitLog[i].res = "false"
    /\ Rejected(lastRecv)
    /\ lastRecv.dgram.packet.ack_type = 1

\* the outcome recv of recv_from with the sender address replaced by from
SentFrom(recv, from) == [recv EXCEPT !.dgram.from = from]

\* C37: the result of wait_for_ack is the same for every sender address of the
\* received datagram: it is decided by the bytes and the expected device id and
\* timestamp, so a matching ACK ends the call with success whoever sent it.
C37_SenderAddressIgnored ==
    /\ waits > 0 =>
          \A from \in Addresses :
              wait_for_ack(SentFrom(lastRecv, from), payload.device_unique_id,
                           payload.timestamp_ms_utc) = LastWait.res
    /\ (waits > 0 /\ Decodes /\ MatchingAck) => (pc = "done" /\ result = "true")

\* a matching ACK that a peer other than the gateway sent has ended the call
C37_Witness ==
    /\ pc = "done"
    /\ result = "true"
    /\ lastRecv.kind = "data"
    /\ lastRecv.dgram.from = "other"
    /\ MatchingAck

\* base * 10 and base * 2^k as natural numbers
TenTimes(base_ms) == BigMul(base_ms, Nat2Big(10))

Doubled(base_ms, k) == BigMul(base_ms, BigPow(<<2>>, k))

\* the timeout of attempt k when the ceiling base * 10 fits in 64 bits, and
\* when it does not and the build continues with the product modulo 2^64
TimeoutWithCeiling(k, base_ms) ==
    IF FitsU64(TenTimes(base_ms))
    THEN BigMin(Doubled(base_ms, k), TenTimes(base_ms))
    ELSE BigMin(BigMin(Doubled(base_ms, k), U64_MAX), WrapU64(TenTimes(base_ms)))

\* the backoff of schedule_next_retry for the attempts and base timeouts of the
\* model's callers, in a build with overflow checks and in one without, and
\* the timeout expected of it
CeilingCases ==
    {[attempt |-> k, base_ms |-> b,
      checked |-> retry_backoff_ms(Nat2Big(k), b, TRUE),
      wrapped |-> retry_backoff_ms(Nat2Big(k), b, FALSE),
      fits |-> FitsU64(TenTimes(b)),
      expected |-> TimeoutWithCeiling(k, b)] :
        k \in 0..MaxSchedules, b \in BaseTimeouts}

\* C38: the ceiling base_timeout_ms * 10 of send_critical_alert and of
\* schedule_next_retry is a plain u64 product.  While it fits in 64 bits the
\* timeout of attempt k is min(base * 2^k, 10 * base) and nothing panics; when
\* it does not fit the call panics or goes on with the product modulo 2^64 as
\* the ceiling, never with the saturated 2^64 - 1.
C38_PlainCeiling ==
    /\ pc = "wait" =>
          /\ read_timeout = SomeTimeout(TimeoutWithCeiling(attempt, base_timeout_ms))
          /\ ~FitsU64(TenTimes(base_timeout_ms)) =>
                BigLeq(read_timeout.ms, WrapU64(TenTimes(base_timeout_ms)))
    /\ result = "Panic" =>
          /\ pc = "done"
          /\ ~FitsU64(TenTimes(base_timeout_ms))
          /\ timeoutFailedAt = attempt
          /\ waits = attempt
    /\ (pc = "done" /\ timeoutFailedAt # -1 /\ FitsU64(TenTimes(base_timeout_ms))) =>
          result = "IoError"
    /\ pc # "idle" =>
          \A c \in CeilingCases :
              c.base_ms = base_timeout_ms =>
                  /\ c.wrapped = [res |-> "Ok", ms |-> c.expected]
                  /\ IF c.fits THEN c.checked = c.wrapped ELSE c.checked.res = "Panic"

\* the base 2^63 + 1, whose product with 10 is 10 modulo 2^64: the build
\* without overflow checks has set a read timeout of 10 ms
C38_Witness ==
    /\ pc = "wait"
    /\ ~FitsU64(TenTimes(base_timeout_ms))
    /\ WrapU64(TenTimes(base_timeout_ms)) = Nat2Big(10)
    /\ read_timeout = SomeTimeout(Nat2Big(10))

\* C39: with base_timeout_ms = 0 the timeout of every attempt is 0 ms, which
\* set_read_timeout rejects: a call with max_retries >= 1 ends after one
\* payload send and no wait, never retried and never with MaxRetriesExceeded,
\* and with IoError from the timeout step when the send succeeded.
C39_ZeroBaseTimeout ==
    (pc # "idle" /\ base_timeout_ms = Nat2Big(0) /\ max_retries >= 1) =>
        /\ \A k \in 0..MaxRetries :
              /\ calculate_backoff_ms(k, base_timeout_ms,
                                      plain_mul(base_timeout_ms, Nat2Big(10)).wrapped)
                    = Nat2Big(0)
              /\ plain_mul(base_timeout_ms, Nat2Big(10)).fits
              /\ \A os_ok \in BOOLEAN : set_read_timeout(Nat2Big(0), os_ok) = "IoError"
        /\ pc \in {"send", "set_timeout", "done"}
        /\ attempt = 0
        /\ waits = 0
        /\ ~read_timeout.some
        /\ pc = "done" =>
              /\ sends = 1
              /\ result \notin {"true", "MaxRetriesExceeded"}
              /\ sendFailedAt = -1 => (result = "IoError" /\ timeoutFailedAt = 0)

\* a call with three attempts allowed and base timeout 0 has returned IoError
\* from the timeout step of its first attempt, after a send that succeeded
C39_Witness ==
    /\ pc = "done"
    /\ base_timeout_ms = Nat2Big(0)
    /\ max_retries = 3
    /\ result = "IoError"
    /\ sends = 1
    /\ waits = 0
    /\ sendFailedAt = -1
    /\ timeoutFailedAt = 0

\* C40 as stated: after a call that completed at least one timeout step has
\* returned, the socket's read timeout is the one computed for the last
\* attempt that the call started.
C40_AsStated ==
    (pc = "done" /\ waits >= 1) =>
        read_timeout = SomeTimeout(TimeoutWithCeiling(attempt, base_timeout_ms))

\* C40: the call never puts back the read timeout that the socket had before:
\* the timeout changes only in a timeout step that succeeds, and after the call
\* has returned it is the one set by the last timeout step that succeeded,
\* which every wait follows; that is the timeout of the last attempt started
\* unless the send or the timeout step of that attempt failed, and the socket's
\* earlier timeout only when no timeout step succeeded.
C40_TimeoutLeftBehind ==
    /\ [](pc = "done" =>
             /\ waits >= 1 =>
                   /\ read_timeout =
                         SomeTimeout(TimeoutWithCeiling(waits - 1, base_timeout_ms))
                   /\ read_timeout # NoTimeout
                   /\ (sendFailedAt = -1 /\ timeoutFailedAt = -1) => waits - 1 = attempt
                   /\ (sendFailedAt # -1 \/ timeoutFailedAt # -1) => waits - 1 = attempt - 1
             /\ waits = 0 => read_timeout = NoTimeout)
    /\ [][read_timeout' # read_timeout =>
             /\ pc = "set_timeout"
             /\ pc' = "wait"
             /\ read_timeout' = SomeTimeout(TimeoutWithCeiling(attempt, base_timeout_ms))]_vars

\* the send of the second attempt failed and the call has returned with the
\* read timeout of the first attempt on the socket
C40_Witness ==
    /\ pc = "done"
    /\ base_timeout_ms = Nat2Big(100)
    /\ attempt = 1
    /\ sendFailedAt = 1
    /\ waits = 1
    /\ read_timeout = SomeTimeout(Nat2Big(100))

====
